---- MODULE Spec2Model ----
(***************************************************************************)
(* A model of the RouteDNS pipeline builder (Config.GetPanelManager and    *)
(* the instantiate* helpers) and of the blocklist-panel resolver           *)
(* (Panellist.Resolve, Panellist.refreshLoop, PanelLoader.Get, CidrDBX).   *)
(*                                                                         *)
(* The specifications share the module's variables:                        *)
(*   SpecBuild    one run of GetPanelManager over a bounded configuration  *)
(*   SpecRefresh  the Panellist refresh loop with queries between ticks    *)
(*   SpecResolve  Panellist.Resolve over a bounded panel database          *)
(*   SpecReload   the reload loop of ClientAllowlist / ResponseBlocklistIP *)
(*                interleaved with the Match calls of Resolve              *)
(*   SpecPanelLock  the Add/Remove calls of Panellist.refreshLoop          *)
(*                interleaved with the Match calls of Panellist.Resolve    *)
(*   SpecRotate   one call of PanelRotate.Resolve and its goroutines       *)
(*                (SpecRotateLive: the same with a fair scheduler)         *)
(*   SpecTrie     ipBlocklistTrie under add calls and hasIP lookups        *)
(*   SpecListener the query handlers of the listeners: listenHandler       *)
(*                (udp, tcp, dot, dtls) and DoQListener                    *)
(*   SpecCert     the runs of a listener's CertMonitor next to the         *)
(*                goroutine that keeps the listener started                *)
(*   SpecProc     start() of cmd/routedns: build, start the listeners,     *)
(*                wait for a signal, shut down                             *)
(*   SpecStop     Start and Stop of one listener (SpecStopLive: the same   *)
(*                with a fair scheduler)                                   *)
(*   SpecECS      ECSModifier.Resolve with its modifier functions, and     *)
(*                DoTClient.Resolve                                        *)
(*   SpecFrozen   a build with blocklist-panels followed by the refresh    *)
(*                ticks of a Panellist                                     *)
(*   SpecTrieRemove  ipBlocklistTrie under add, remove and hasIP calls     *)
(*   SpecRbl      ResponseBlocklistIP.Resolve over the upstream's results  *)
(*   SpecDot      the cert-monitor runs of a DoT client between its queries*)
(*   SpecWire     a build whose blocklist-panel names option resolvers     *)
(*   SpecGroup    one call of instantiateGroup per group type and list     *)
(*   SpecCidr     CidrDBX.Add on the IP allowlist of a Panellist, with     *)
(*                queries between the calls                                *)
(*   SpecStart    the Start() calls of the goroutine of start() and of the *)
(*                CertMonitor runs on one listener                         *)
(***************************************************************************)
EXTENDS Integers, Sequences, FiniteSets, TLC

VARIABLES
    \* ---- pipeline builder (GetPanelManager) ----
    cfg,            \* the parsed configuration (input)
    pc,             \* position inside GetPanelManager
    err,            \* the error GetPanelManager returns ("none" while running)
    resolvers,      \* map id -> live Resolver instance
    instCount,      \* how often each declared id has been instantiated
    graph,          \* the dag.DAG: [V: vertex ids, E: set of <<from, to>>]
    leaves,         \* the batch returned by graph.GetLeaves() being processed
    panelResolvers, \* PanelRotate.PanelResolvers of the sole panel-rotate
    globals,        \* process-wide state: net.DefaultResolver, environment
    \* ---- blocklist-panel resolver (Panellist) ----
    loaderOpt,      \* Panellist.Loader.opt: the baseline NodeInfo and UserList
    panelDB,        \* Panellist.DB: the PanelDB the queries are matched against
    panelOpt,       \* the alternative resolvers of PanellistOptions
    tick,           \* what the latest refresh tick fetched and decided
    last,           \* the latest Resolve call since the latest tick and its result
    \* ---- a node with a matcher DB, its loop goroutine and its callers ----
    mu,             \* the node's sync.RWMutex: [writer, readers]
    dbCur,          \* the DB instance the node's DB field points to
    dbClosed,       \* the DB instances on which Close has been called
    loop,           \* the loop goroutine: [pc, new]
    rd,             \* per Resolve goroutine: [pc, db]
    overlap,        \* a Match has run on an instance that was closed before
    \* ---- one call of PanelRotate.Resolve ----
    rotKids,        \* per panel resolver: its goroutine, "running" or "sent"
    rotCh,          \* responseCh: the responses sent and not yet received
    rotArrived,     \* every response sent so far, in the order of the sends
    rotMain,        \* the calling goroutine: [pc, i, ret, returns]
    \* ---- an ipBlocklistTrie ----
    trie,           \* the nodes reachable from root, by path, and the leaf flags
    trieAdded,      \* the networks add was called with
    trieLast,       \* the latest hasIP call since the latest add, and its result
    \* ---- a listener (listenHandler or DoQListener) ----
    lsnAllowed,     \* the listener's AllowedNet option
    lsnConn,        \* the QUIC connection being served: [state, src]
    lsnLast,        \* the latest query, connection or stream handled
    lsnMetrics,     \* the listener's expvar counters
    lsnCrashed,     \* a handler goroutine panicked: the process is gone
    \* ---- a listener with a cert-monitor task ----
    certL,          \* the listener: [kind, mode, serving, config, starter]
    certRun,        \* the CertMonitor call: [pc, lego, runs]
    certTask,       \* the task and the process: [running, crashed]
    \* ---- the process (start in cmd.go) ----
    procPc,         \* position of start(): build, listeners, waiting, exited
    procMgr,        \* the Manager that GetPanelManager returned
    procRun,        \* what the process did: [started, stopped, hooksRun, exit]
    \* ---- a listener between Start and Stop ----
    stopL,          \* the listener: [kind, ln, sock]
    stopPc,         \* the calls: [start, stop]
    stopAccepted,   \* the connections accepted so far
    \* ---- an ecs-modifier and a DoT client ----
    ecsCfg,         \* the ecs-modifier: [op, addr, prefix4, prefix6]
    ecsLast,        \* the latest Resolve call: the query before, after, as forwarded
    \* ---- a response-blocklist-ip group ----
    rblOpt,         \* the group's options: [Filter, Inverted, BlocklistResolver]
    rblLast,        \* the latest Resolve call: the upstream result and what was returned
    \* ---- a DoT client with a cert-monitor task ----
    dotC,           \* the client: [mode, socks, optTLS, pipeTLS, runs]
    dotLast         \* the latest query since the latest run: [n, tls]

buildVars == <<cfg, pc, err, resolvers, instCount, graph, leaves, panelResolvers, globals>>
panelVars == <<loaderOpt, panelDB, panelOpt, tick, last>>
lockVars == <<mu, dbCur, dbClosed, loop, rd, overlap>>
rotateVars == <<rotKids, rotCh, rotArrived, rotMain>>
trieVars == <<trie, trieAdded, trieLast>>
listenerVars == <<lsnAllowed, lsnConn, lsnLast, lsnMetrics, lsnCrashed>>
certVars == <<certL, certRun, certTask>>
procVars == <<procPc, procMgr, procRun>>
stopVars == <<stopL, stopPc, stopAccepted>>
ecsVars == <<ecsCfg, ecsLast>>
rblVars == <<rblOpt, rblLast>>
dotVars == <<dotC, dotLast>>
vars == <<buildVars, panelVars, lockVars, rotateVars, trieVars, listenerVars, certVars, procVars, stopVars, ecsVars, rblVars, dotVars>>

\* What an action of one part leaves alone.
notBuildVars == <<panelVars, lockVars, rotateVars, trieVars, listenerVars, certVars, procVars, stopVars, ecsVars, rblVars, dotVars>>
notPanelVars == <<buildVars, lockVars, rotateVars, trieVars, listenerVars, certVars, procVars, stopVars, ecsVars, rblVars, dotVars>>
notLockVars == <<buildVars, panelVars, rotateVars, trieVars, listenerVars, certVars, procVars, stopVars, ecsVars, rblVars, dotVars>>
notRotateVars == <<buildVars, panelVars, lockVars, trieVars, listenerVars, certVars, procVars, stopVars, ecsVars, rblVars, dotVars>>
notTrieVars == <<buildVars, panelVars, lockVars, rotateVars, listenerVars, certVars, procVars, stopVars, ecsVars, rblVars, dotVars>>
notListenerVars == <<buildVars, panelVars, lockVars, rotateVars, trieVars, certVars, procVars, stopVars, ecsVars, rblVars, dotVars>>
notCertVars == <<buildVars, panelVars, lockVars, rotateVars, trieVars, listenerVars, procVars, stopVars, ecsVars, rblVars, dotVars>>
notProcVars == <<buildVars, panelVars, lockVars, rotateVars, trieVars, listenerVars, certVars, stopVars, ecsVars, rblVars, dotVars>>
notStopVars == <<buildVars, panelVars, lockVars, rotateVars, trieVars, listenerVars, certVars, procVars, ecsVars, rblVars, dotVars>>
notEcsVars == <<buildVars, panelVars, lockVars, rotateVars, trieVars, listenerVars, certVars, procVars, stopVars, rblVars, dotVars>>
notRblVars == <<buildVars, panelVars, lockVars, rotateVars, trieVars, listenerVars, certVars, procVars, stopVars, ecsVars, dotVars>>
notDotVars == <<buildVars, panelVars, lockVars, rotateVars, trieVars, listenerVars, certVars, procVars, stopVars, ecsVars, rblVars>>

\* The Resolve goroutines running against the node.
Callers == {"g1", "g2", "g3"}

\* The node with a matcher DB as constructed: DB instance 1, nobody inside.
NodeIdle ==
    /\ mu = [writer |-> FALSE, readers |-> 0]
    /\ dbCur = 1
    /\ dbClosed = {}
    /\ loop = [pc |-> "sleep", new |-> 0]
    /\ rd = [g \in Callers |-> [pc |-> "idle", db |-> 0]]
    /\ overlap = FALSE

\* No response of PanelRotate.Resolve; "none" is also the kind of the
\* value a call has before it returns.
NoResponse == [from |-> 0, kind |-> "none"]

\* PanelRotate.Resolve has not been called.
RotateIdle ==
    /\ rotKids = <<>>
    /\ rotCh = <<>>
    /\ rotArrived = <<>>
    /\ rotMain = [pc |-> "start", i |-> 0, ret |-> NoResponse, returns |-> 0]

\* No hasIP call yet.
NoLookup == [asked |-> FALSE, ip |-> <<>>, rule |-> <<>>, ok |-> FALSE]

\* A new ipBlocklistTrie: root is nil.
TrieEmpty ==
    /\ trie = [nodes |-> {}, leaf |-> {}]
    /\ trieAdded = {}
    /\ trieLast = NoLookup

\* The listener's counters as registered: all zero.
ZeroMetrics ==
    [query |-> 0, response |-> 0, drop |-> 0, acl |-> 0, resolve |-> 0,
     keepalive |-> 0, read |-> 0, unpack |-> 0, connection |-> 0, stream |-> 0]

\* Nothing handled yet.
NoEvent ==
    [n |-> 0, proto |-> "none", src |-> "<nil>", input |-> "none",
     options |-> {}, resolved |-> FALSE, out |-> "notcalled", written |-> "none",
     closed |-> FALSE]

\* No QUIC connection is being served.
NoConn == [state |-> "none", src |-> "<nil>"]

\* A listener that has received nothing.
ListenerQuiet ==
    /\ lsnConn = NoConn
    /\ lsnLast = NoEvent
    /\ lsnMetrics = ZeroMetrics
    /\ lsnCrashed = FALSE

\* A listener without allowed-nets that has received nothing.
ListenerIdle ==
    /\ lsnAllowed = <<>>
    /\ ListenerQuiet

\* A listener that was built and not started, its cert-monitor task
\* scheduled and no run yet.
CertQuiet ==
    /\ certRun = [pc |-> "idle", lego |-> FALSE, runs |-> 0]
    /\ certTask = [running |-> TRUE, crashed |-> FALSE]

\* The same for a dot listener with certificate mode "file".
CertIdle ==
    /\ certL = [kind |-> "dot", mode |-> "file", serving |-> FALSE,
                config |-> 0, starter |-> "sleep"]
    /\ CertQuiet

\* No Manager.
NoManager == [Listeners |-> {}, Tasks |-> {}, OnClose |-> {}]

\* The process before start() builds anything; exit -1 stands for running.
ProcFresh ==
    /\ procPc = "build"
    /\ procRun = [started |-> {}, stopped |-> {}, hooksRun |-> {}, exit |-> -1]

ProcIdle ==
    /\ procMgr = NoManager
    /\ ProcFresh

\* A listener on which neither Start nor Stop has been called: the field
\* that holds the server's socket is nil and no socket is open.
StopFresh ==
    /\ stopPc = [start |-> "idle", stop |-> "idle"]
    /\ stopAccepted = 0

StopIdle ==
    /\ stopL = [kind |-> "dot", ln |-> "nil", sock |-> "none"]
    /\ StopFresh

\* A query without an OPT record.
PlainQuery == [question |-> TRUE, edns0 |-> FALSE, options |-> <<>>]

\* No Resolve call yet.
NoCall ==
    [resolver |-> "none", src |-> [fam |-> 0, bits |-> <<>>], before |-> PlainQuery,
     after |-> PlainQuery, forwarded |-> PlainQuery, padded |-> FALSE,
     called |-> FALSE]

\* An ecs-modifier without an operation, and no call yet.
EcsIdle ==
    /\ ecsCfg = [op |-> "", addr |-> [fam |-> 0, bits |-> <<>>],
                 prefix4 |-> 0, prefix6 |-> 0]
    /\ ecsLast = NoCall

\* A response-blocklist-ip group that has not been asked anything.
RblIdle ==
    /\ rblOpt = [Filter |-> FALSE, Inverted |-> FALSE, BlocklistResolver |-> FALSE]
    /\ rblLast = [called |-> FALSE,
                  up |-> [kind |-> "nil", Rcode |-> "", Answer |-> <<>>, Ns |-> <<>>, Extra |-> <<>>],
                  out |-> [kind |-> "nil", Rcode |-> "", Answer |-> <<>>, Ns |-> <<>>, Extra |-> <<>>]]

\* A DoT client without a cert-monitor task that has not been asked anything.
DotIdle ==
    /\ dotC = [mode |-> "none", socks |-> FALSE, optTLS |-> 0, pipeTLS |-> 0, runs |-> 0]
    /\ dotLast = [n |-> 0, tls |-> 0]

-----------------------------------------------------------------------------
(***************************************************************************)
(* Bounded configurations                                                  *)
(***************************************************************************)

\* Node ids used in the configuration maps.
Ids == {"a", "b", "c"}

\* The id of one more group, a blocklist-panel that no other node names as a
\* child (blocklist-panels are attached to the panel-rotate by the builder).
PanelId == "d"

AllIds == Ids \cup {PanelId}

\* The id under which the bootstrap resolver is stored in the map.
BootId == "bootstrap-resolver"

\* Longest `resolvers = [...]` list of a group in the enumerated inputs.
MaxResolvers == 1

GroupTypes == {"round-robin", "panel-rotate", "blocklist-panel"}

RefLists == UNION {[1..n -> Ids] : n \in 0..MaxResolvers}

\* A group declaration. The optional references are "" when not set.
GroupDecl(t, rs, allow, ipallow) ==
    [Type |-> t, Resolvers |-> rs, AllowListResolver |-> allow,
     BlockListResolver |-> "", LimitResolver |-> "", RetryResolver |-> "",
     IpAllowListResolver |-> ipallow]

\* Groups that may be declared under ids "b" and "c": any type, any resolvers
\* list; the optional references are set only on blocklist-panel groups.
FullGroupDecls ==
    {GroupDecl(t, rs, "", "") : t \in {"round-robin", "panel-rotate"}, rs \in RefLists}
    \cup {GroupDecl("blocklist-panel", rs, al, "") : rs \in RefLists, al \in {"", "a"}}

\* Groups that may be declared under id "a": childless groups only.
LeafGroupDecls == {GroupDecl(t, <<>>, "", "") : t \in GroupTypes}

\* A router declaration: the Resolver field of each of its routes.
RouteLists == {<<>>, <<"a">>, <<"b">>, <<"c">>, <<"">>, <<"a", "a">>}

Range(s) == {s[i] : i \in DOMAIN s}

\* The declarations a configuration map may hold under one id: none or one.
OneOrNone(id, decls) == {[x \in {} |-> 0]} \cup {(id :> d) : d \in decls}

\* What id "c" may be: nothing, a group, a router, or a group and a router
\* under the same id.
CDecls ==
    {[Groups |-> g, Routers |-> r] :
        g \in OneOrNone("c", FullGroupDecls), r \in OneOrNone("c", {})}
    \cup {[Groups |-> g, Routers |-> r] :
        g \in OneOrNone("c", {GroupDecl("round-robin", <<>>, "", "")}),
        r \in OneOrNone("c", RouteLists)}

Configs ==
    {[BootstrapResolver |-> boot, Resolvers |-> rs,
      Groups |-> ga @@ gb @@ cd.Groups @@ gd,
      Routers |-> cd.Routers, ListenerResolver |-> "c"] :
        boot \in BOOLEAN,
        rs \in SUBSET {"a"},
        ga \in OneOrNone("a", LeafGroupDecls),
        gb \in OneOrNone("b", FullGroupDecls),
        cd \in CDecls,
        gd \in OneOrNone(PanelId, {GroupDecl("blocklist-panel", <<"a">>, "", "")})}

-----------------------------------------------------------------------------
(***************************************************************************)
(* The dependency graph (github.com/heimdalr/dag as used by the builder)   *)
(***************************************************************************)

\* edges[id] of a group: append(v.Resolvers, v.AllowListResolver,
\* v.BlockListResolver, v.LimitResolver, v.RetryResolver).
GroupEdgeList(g) ==
    g.Resolvers \o <<g.AllowListResolver, g.BlockListResolver, g.LimitResolver, g.RetryResolver>>

\* edges[id] of a router: the route resolvers, deduplicated through a map.
RouterEdgeSet(routes) == Range(routes)

\* The non-empty references of node id (the e == "" entries are skipped).
EdgeTargets(c, id) ==
    ((IF id \in DOMAIN c.Groups THEN Range(GroupEdgeList(c.Groups[id])) ELSE {})
     \cup (IF id \in DOMAIN c.Routers THEN RouterEdgeSet(c.Routers[id]) ELSE {}))
    \ {""}

DeclaredIds(c) == c.Resolvers \cup DOMAIN c.Groups \cup DOMAIN c.Routers

EdgeSet(c) == {p \in DeclaredIds(c) \X Ids : p[2] \in EdgeTargets(c, p[1])}

\* graph.AddVertex fails with IDDuplicateError when the id is already a vertex.
DuplicateResolverGroupId(c) == c.Resolvers \cap DOMAIN c.Groups # {}
DuplicateRouterId(c) == DOMAIN c.Routers \cap (c.Resolvers \cup DOMAIN c.Groups) # {}

\* A group whose edge list names the same node twice: the second AddEdge
\* fails with EdgeDuplicateError (router edges are deduplicated first).
DuplicateEdge(c) ==
    \E id \in DOMAIN c.Groups :
        LET es == GroupEdgeList(c.Groups[id]) IN
        \E i, j \in DOMAIN es : i < j /\ es[i] = es[j] /\ es[i] # ""

\* AddEdge fails with IDUnknownError when the target is no vertex.
UnknownTarget(c) ==
    \E id \in DeclaredIds(c) : EdgeTargets(c, id) \ DeclaredIds(c) # {}

\* Nodes reachable from id over the edges E in at least one step.
RECURSIVE ReachN(_, _, _)
ReachN(E, S, n) ==
    IF n = 0 THEN S
    ELSE ReachN(E, S \cup {p[2] : p \in {q \in E : q[1] \in S}}, n - 1)

Descendants(E, id) == ReachN(E, {p[2] : p \in {q \in E : q[1] = id}}, Cardinality(Ids))

\* AddEdge fails with SrcDstEqualError or EdgeLoopError when the edge would
\* close a cycle; whatever the insertion order, some edge of a cycle fails.
HasCycle(c) == \E id \in DeclaredIds(c) : id \in Descendants(EdgeSet(c), id)

\* Mutant of AddEdgesFails: an edge that closes a cycle is accepted.
AddEdges_NoLoopCheck(c) == UnknownTarget(c) \/ DuplicateEdge(c)

\* The loop over edges: the first failing graph.AddEdge aborts the build.
AddEdgesFails(c) == UnknownTarget(c) \/ DuplicateEdge(c) \/ HasCycle(c)

-----------------------------------------------------------------------------
(***************************************************************************)
(* Instantiation helpers                                                   *)
(***************************************************************************)

\* The nil Resolver interface value (a map lookup of an absent id).
NilResolver == "<nil>"

\* resolvers[id] as wired into an option struct: nil when the id is absent.
Wire(ref, res) == IF ref \in DOMAIN res THEN ref ELSE NilResolver

\* instantiateResolver: an upstream client, no children.
ResolverInstance == [kind |-> "resolver", Type |-> "resolver", gr |-> <<>>,
                     AllowListResolver |-> NilResolver, IpAllowListResolver |-> NilResolver]

\* instantiateGroup, the lookup loop: every entry of g.Resolvers must be in the map.
GroupChildrenFound(g, res) == \A i \in DOMAIN g.Resolvers : g.Resolvers[i] \in DOMAIN res

\* instantiateGroup, the per-type check on the number of children.
GroupArityOK(g) ==
    g.Type \in {"panel-rotate", "blocklist-panel"} => Len(g.Resolvers) = 1

GroupInstance(g, res) ==
    [kind |-> "group", Type |-> g.Type, gr |-> g.Resolvers,
     AllowListResolver |-> IF g.Type = "blocklist-panel"
                           THEN Wire(g.AllowListResolver, res) ELSE NilResolver,
     IpAllowListResolver |-> IF g.Type = "blocklist-panel"
                             THEN Wire(g.IpAllowListResolver, res) ELSE NilResolver]

\* instantiateRouter: every route's resolver must be in the map.
RouterRoutesFound(routes, res) == \A i \in DOMAIN routes : routes[i] \in DOMAIN res

RouterInstance(routes) ==
    [kind |-> "router", Type |-> "router", gr |-> routes,
     AllowListResolver |-> NilResolver, IpAllowListResolver |-> NilResolver]

\* The panel-rotate preflight: pgm and pm as collected in the groups loop.
Pgm(c) == {id \in DOMAIN c.Groups : c.Groups[id].Type = "blocklist-panel"}
Pm(c) == {id \in DOMAIN c.Groups : c.Groups[id].Type = "panel-rotate"}

\* Mutant of PanelPreflightFails: a missing panel-rotate is not detected.
PanelPreflight_NoZeroCheck(c) ==
    Cardinality({id \in DOMAIN c.Groups : c.Groups[id].Type = "blocklist-panel"}) > 0
    /\ Cardinality({id \in DOMAIN c.Groups : c.Groups[id].Type = "panel-rotate"}) > 1

\* Mutant of PanelPreflightFails: a second panel-rotate is not detected.
PanelPreflight_AllowsTwo(c) ==
    Cardinality({id \in DOMAIN c.Groups : c.Groups[id].Type = "blocklist-panel"}) > 0
    /\ Cardinality({id \in DOMAIN c.Groups : c.Groups[id].Type = "panel-rotate"}) = 0

PanelPreflightFails(c) ==
    \/ Cardinality(Pgm(c)) > 0 /\ Cardinality(Pm(c)) = 0
    \/ Cardinality(Pgm(c)) > 0 /\ Cardinality(Pm(c)) > 1

\* Mutant of GetLeaves: every vertex is handed out, children built or not.
GetLeaves_AllVertices(g) == g.V

\* graph.GetLeaves(): the vertices without an outgoing edge.
GetLeaves(g) == {v \in g.V : ~ \E p \in g.E : p[1] = v}

\* graph.DeleteVertex(id): the vertex and the edges touching it.
DeleteVertex(g, id) ==
    [V |-> g.V \ {id}, E |-> {p \in g.E : p[1] # id /\ p[2] # id}]

\* Whether instantiating leaf id succeeds against the map res.
CanInstantiate(c, id, res) ==
    /\ id \in DOMAIN c.Groups =>
           GroupChildrenFound(c.Groups[id], res) /\ GroupArityOK(c.Groups[id])
    /\ id \in DOMAIN c.Routers => RouterRoutesFound(c.Routers[id], res)

InstanceOf(c, id, res) ==
    IF id \in DOMAIN c.Groups THEN GroupInstance(c.Groups[id], res)
    ELSE IF id \in DOMAIN c.Routers THEN RouterInstance(c.Routers[id])
    ELSE ResolverInstance

-----------------------------------------------------------------------------
(***************************************************************************)
(* The blocklist-panel resolver: addresses, databases, PanelLoader.Get     *)
(***************************************************************************)

\* A nil Resolver / a nil slice of PanellistOptions and PanelDB.
Nil == "<nil>"

\* net.IPv4len and net.IPv6len: the byte lengths of a net.IP.
IPv4len == 4
IPv6len == 16

\* const maxPTRResponses of package rdns (its declaration is not part of the
\* files at hand; 10 is the value of the upstream declaration).
maxPTRResponses == 10

\* A net.IP: the address, its family, and the length of the byte slice that
\* holds it (an IPv4 address is held in 4 or in 16 bytes).
IP(addr, fam, len) == [addr |-> addr, fam |-> fam, len |-> len]

\* len(ip.To4()): To4 returns the 4-byte form of an IPv4 address held in
\* either length, and nil for anything else.
To4Len(ip) == IF ip.fam = 4 THEN IPv4len ELSE 0

\* Address texts the panel may list under RouteDNS.Spoof, with the family
\* they denote and len() of the text.
SpoofTexts == {"1.2.3.4", "2001:db8::1", "2001:db8::1:2:34"}
TextFamily(s) == IF s = "1.2.3.4" THEN 4 ELSE 6
TextLen(s) ==
    CASE s = "1.2.3.4" -> 7
      [] s = "2001:db8::1" -> 11
      [] s = "2001:db8::1:2:34" -> 16

\* net.ParseIP of a valid text: always the 16-byte form, IPv4 included.
ParseIP(s) == IP(s, TextFamily(s), IPv6len)

\* PanelLoader.Get, lines 134-146: an entry is kept if it parses to an IPv4
\* address, or else if the TEXT is 16 characters long.  <<>> is the nil
\* slice left when nothing was appended.
ParseSpoof(texts) ==
    LET kept == SelectSeq(texts, LAMBDA s :
                    To4Len(ParseIP(s)) = IPv4len \/ TextLen(s) = IPv6len)
    IN [i \in DOMAIN kept |-> ParseIP(kept[i])]

\* Addresses a hosts-format DB returns, in their native lengths.
HostV4 == IP("192.0.2.1", 4, IPv4len)
HostV6 == IP("2001:db8::2", 6, IPv6len)
HostIPs == {HostV4, HostV6}

\* CidrDBX, cidr-dbX.go.  A GeoIPMatcher is its country code and the set of
\* addresses it covers (every rule is one user's address).
ToCidrList(ips) ==
    IF ips # {} THEN <<[CountryCode |-> "panel", Cidr |-> ips]>> ELSE <<>>

Passwds(users) == {u.Passwd : u \in users}

NewCidrDBX(name, opt) == [name |-> name, cidrs |-> ToCidrList(Passwds(opt.UserList))]

CidrAdd(db, rules) ==
    [db EXCEPT !.cidrs = [i \in DOMAIN @ |->
        IF @[i].CountryCode # "panel" THEN @[i]
        ELSE [@[i] EXCEPT !.Cidr = @ \cup rules]]]

CidrRemove(db, ips) ==
    [db EXCEPT !.cidrs = [i \in DOMAIN @ |-> [@[i] EXCEPT !.Cidr = @ \ ips]]]

\* Mutant of CidrMatch: a DB without matchers lets every address pass.
CidrMatch_EmptyMatchesAll(db, ip) ==
    IF Len(db.cidrs) = 0 THEN TRUE
    ELSE \E i \in DOMAIN db.cidrs : ip \in db.cidrs[i].Cidr

\* CidrDBX.Match: no matcher, no match.
CidrMatch(db, ip) ==
    IF Len(db.cidrs) = 0 THEN FALSE
    ELSE \E i \in DOMAIN db.cidrs : ip \in db.cidrs[i].Cidr

\* A BlocklistDB of the panel: the domains of its rules and what Match hands
\* back on a hit.  NewDomainXDB builds it from the loader's baseline; a
\* domain DB returns neither addresses nor names, a hosts DB returns both.
NewBlocklistDB(type, opt, ips, names) ==
    [name |-> type,
     domains |-> IF type = "allow" THEN opt.NodeInfo.Allow ELSE opt.NodeInfo.Block,
     ips |-> ips, names |-> names]

\* BlocklistDB.Match: <<ips, names, ok>>.
DBMatch(db, q) == [ips |-> db.ips, names |-> db.names, ok |-> q.Name \in db.domains]

\* PanelLoader.Get, lines 84-165.  hosts is what the hosts format adds to
\* the rules: the addresses and the number of names Match returns.
PanelLoaderGet(opt, hosts) ==
    [AllowlistDB   |-> NewBlocklistDB("allow", opt, hosts.allowIPs, 0),
     BlocklistDB   |-> NewBlocklistDB("block", opt, hosts.blockIPs, hosts.blockNames),
     IpAllowlistDB |-> NewCidrDBX("iplist", opt),
     Socks5Dialer  |-> IF opt.NodeInfo.Socks5Address # "" THEN opt.NodeInfo.Socks5Address ELSE Nil,
     Spoof         |-> ParseSpoof(opt.NodeInfo.Spoof)]

-----------------------------------------------------------------------------
(***************************************************************************)
(* Panellist.Resolve                                                       *)
(***************************************************************************)

\* The default upstream child (Panellist.resolver).
Upstream == "upstream"

\* A response of Resolve: what came back (kind), the resolver the query was
\* handed to and the dialer passed along, the records of a synthesised
\* answer, the number of names of a PTR response, and the parts of the
\* PanelDB that were consulted on the way.
Reply(kind, to, dialer, rrs, names, consulted) ==
    [kind |-> kind, to |-> to, dialer |-> dialer, rrs |-> rrs, names |-> names,
     consulted |-> consulted]

ForwardTo(to, db, consulted) == Reply("forward", to, db.Socks5Dialer, {}, 0, consulted)

RR(rrtype, ip) == [Rrtype |-> rrtype, Ttl |-> 3600, addr |-> ip.addr, fam |-> ip.fam]

\* The loop shared by lines 488-510, 537-559 and 575-597: an address with a
\* 4-byte To4 form answers an A question; failing that, an address held in
\* 16 bytes answers an AAAA question.
SynthRRs(ips, qtype) ==
    {RR("A", ip) : ip \in {i \in ips : To4Len(i) = IPv4len /\ qtype = "A"}}
    \cup {RR("AAAA", ip) : ip \in {i \in ips :
            /\ ~(To4Len(i) = IPv4len /\ qtype = "A")
            /\ i.len = IPv6len /\ qtype = "AAAA"}}

\* Mutant of BlockHit: the block-list-resolver is tried before the PTR names.
BlockHit_ResolverFirst(q, m, db, opt, seen) ==
    IF opt.BlockListResolver # Nil
    THEN ForwardTo(opt.BlockListResolver, db, seen)
    ELSE IF q.Qtype = "PTR" /\ m.names > 0
    THEN Reply("ptr", Nil, Nil, {},
               IF m.names > maxPTRResponses THEN maxPTRResponses ELSE m.names, seen)
    ELSE IF SynthRRs(m.ips, q.Qtype) # {}
    THEN Reply("answer", Nil, Nil, SynthRRs(m.ips, q.Qtype), 0, seen)
    ELSE Reply("nxdomain", Nil, Nil, {}, 0, seen)

\* Lines 462-521: the answer to a block hit.
BlockHit(q, m, db, opt, seen) ==
    IF q.Qtype = "PTR" /\ m.names > 0
    THEN Reply("ptr", Nil, Nil, {},
               IF m.names > maxPTRResponses THEN maxPTRResponses ELSE m.names, seen)
    ELSE IF opt.BlockListResolver # Nil
    THEN ForwardTo(opt.BlockListResolver, db, seen)
    ELSE IF SynthRRs(m.ips, q.Qtype) # {}
    THEN Reply("answer", Nil, Nil, SynthRRs(m.ips, q.Qtype), 0, seen)
    ELSE Reply("nxdomain", Nil, Nil, {}, 0, seen)

\* Lines 570-608: the spoof list, then the default upstream child.
SpoofOrUpstream(q, db, seen) ==
    IF db.Spoof # <<>> /\ SynthRRs(Range(db.Spoof), q.Qtype) # {}
    THEN Reply("answer", Nil, Nil, SynthRRs(Range(db.Spoof), q.Qtype), 0, seen \cup {"spoof"})
    ELSE ForwardTo(Upstream, db, IF db.Spoof # <<>> THEN seen \cup {"spoof"} ELSE seen)

\* Lines 523-568: the allow DB; a hit without resolver and without usable
\* addresses falls through to the spoof step.
AllowStep(q, db, opt, seen) ==
    LET m == DBMatch(db.AllowlistDB, q)
        seenA == seen \cup {"allow"}
    IN IF m.ok /\ opt.AllowListResolver # Nil
       THEN ForwardTo(opt.AllowListResolver, db, seenA)
       ELSE IF m.ok /\ SynthRRs(m.ips, q.Qtype) # {}
       THEN Reply("answer", Nil, Nil, SynthRRs(m.ips, q.Qtype), 0, seenA)
       ELSE SpoofOrUpstream(q, db, seenA)

\* Lines 432-609.
Resolve(q, db, opt) ==
    IF ~q.hasQuestion
    THEN Reply("error", Nil, Nil, {}, 0, {})
    ELSE IF ~CidrMatch(db.IpAllowlistDB, q.SourceIP)
    THEN IF opt.IpAllowListResolver # Nil
         THEN ForwardTo(opt.IpAllowListResolver, db, {"ipallow"})
         ELSE Reply("refused", Nil, Nil, {}, 0, {"ipallow"})
    ELSE LET m == DBMatch(db.BlocklistDB, q)
         IN IF m.ok
            THEN BlockHit(q, m, db, opt, {"ipallow", "block"})
            ELSE AllowStep(q, db, opt, {"ipallow", "block"})

-----------------------------------------------------------------------------
(***************************************************************************)
(* Panellist.refreshLoop                                                   *)
(***************************************************************************)

\* controller.CompareUserList: the users only in the old list and the users
\* only in the new one.
CompareUserList(old, new) == [deleted |-> old \ new, added |-> new \ old]

\* Lines 658-694.  A changed SOCKS5 address yields a new dialer unless the
\* new address is empty.  For changed allow or block rules Reload() is
\* called on the DB and its result is dropped: r.DB keeps the DBs it has.
ApplyNodeInfo(db, old, new) ==
    IF old = new THEN db
    ELSE [db EXCEPT !.Socks5Dialer =
            IF old.Socks5Address # new.Socks5Address /\ new.Socks5Address # ""
            THEN new.Socks5Address ELSE @]

\* Lines 696-723.  The slice handed to Add is filled from `deleted`.
ApplyUserList(db, old, new) ==
    LET c == CompareUserList(old, new)
        deletedUsers == Passwds(c.deleted)
        addedUsers == Passwds(c.deleted)
        removed == IF c.deleted # {}
                   THEN CidrRemove(db.IpAllowlistDB, deletedUsers)
                   ELSE db.IpAllowlistDB
    IN [db EXCEPT !.IpAllowlistDB =
            IF c.added # {} THEN CidrAdd(removed, addedUsers) ELSE removed]

\* Mutant of RefreshOnce: the node-info changes are made before the user
\* list is fetched, and stay when that fetch fails.
RefreshOnce_ApplyBeforeUserFetch(db, opt, nodeFetch, userFetch, fetchedNode, fetchedUsers) ==
    IF nodeFetch = "error" THEN [DB |-> db, opt |-> opt]
    ELSE LET newNodeInfo == IF nodeFetch = "ok" THEN fetchedNode ELSE opt.NodeInfo
             newUserInfo == IF userFetch = "ok" THEN fetchedUsers ELSE opt.UserList
             db1 == IF nodeFetch = "ok"
                    THEN ApplyNodeInfo(db, opt.NodeInfo, newNodeInfo) ELSE db
             db2 == IF userFetch = "ok"
                    THEN ApplyUserList(db1, opt.UserList, newUserInfo) ELSE db1
         IN IF userFetch = "error" THEN [DB |-> db1, opt |-> opt]
            ELSE [DB |-> db2, opt |-> [NodeInfo |-> newNodeInfo, UserList |-> newUserInfo]]

\* One pass of the loop body, lines 631-729: both fetches, then the changes,
\* then the new baseline.  A fetch ends "ok" with the fetched value, as
\* "not-modified" (the baseline is kept) or as "error" (continue).
RefreshOnce(db, opt, nodeFetch, userFetch, fetchedNode, fetchedUsers) ==
    IF nodeFetch = "error" \/ userFetch = "error" THEN [DB |-> db, opt |-> opt]
    ELSE LET newNodeInfo == IF nodeFetch = "ok" THEN fetchedNode ELSE opt.NodeInfo
             newUserInfo == IF userFetch = "ok" THEN fetchedUsers ELSE opt.UserList
             db1 == IF nodeFetch = "ok"
                    THEN ApplyNodeInfo(db, opt.NodeInfo, newNodeInfo) ELSE db
             db2 == IF userFetch = "ok"
                    THEN ApplyUserList(db1, opt.UserList, newUserInfo) ELSE db1
         IN [DB |-> db2, opt |-> [NodeInfo |-> newNodeInfo, UserList |-> newUserInfo]]

-----------------------------------------------------------------------------
(***************************************************************************)
(* Bounded panels, clients and queries                                     *)
(***************************************************************************)

\* The panel's users; Passwd carries the user's address.
Users == {[Passwd |-> "10.0.0.1"], [Passwd |-> "10.0.0.2"]}
SourceIPs == Passwds(Users)

RuleDomains == {"x.test"}
QNames == {"x.test", "z.test"}
QTypes == {"A", "AAAA", "PTR"}
SocksAddresses == {"", "127.0.0.1:1080"}
SpoofLists ==
    {<<>>, <<"1.2.3.4">>, <<"2001:db8::1">>, <<"2001:db8::1:2:34">>,
     <<"1.2.3.4", "2001:db8::1">>, <<"1.2.3.4", "2001:db8::1:2:34">>}

\* The RouteDNS part of api.NodeInfo.
NodeInfo(allow, block, socks, spoof) ==
    [Allow |-> allow, Block |-> block, Socks5Address |-> socks, Spoof |-> spoof]

\* Node-infos the panel serves while the refresh loop runs: no rule, an
\* allow rule or a block rule, with or without a SOCKS5 proxy.
RefreshRules == {<<{}, {}>>, <<RuleDomains, {}>>, <<{}, RuleDomains>>}
RefreshNodeInfos ==
    {NodeInfo(r[1], r[2], s, <<>>) : r \in RefreshRules, s \in SocksAddresses}

\* Node-infos the PanelDB is built from when queries are examined.
ResolveNodeInfos ==
    {NodeInfo(a, b, "127.0.0.1:1080", sp) :
        a \in SUBSET RuleDomains, b \in SUBSET RuleDomains, sp \in SpoofLists}

NoHosts == [allowIPs |-> {}, blockIPs |-> {}, blockNames |-> 0]
HostData ==
    {[allowIPs |-> ai, blockIPs |-> bi, blockNames |-> n] :
        ai \in {{}, HostIPs}, bi \in SUBSET HostIPs,
        n \in {0, maxPTRResponses, maxPTRResponses + 1}}

NoAltResolvers ==
    [AllowListResolver |-> Nil, BlockListResolver |-> Nil, IpAllowListResolver |-> Nil]
AltResolvers ==
    {[AllowListResolver |-> a, BlockListResolver |-> b, IpAllowListResolver |-> i] :
        a \in {Nil, "allowlist-resolver"}, b \in {Nil, "blocklist-resolver"},
        i \in {Nil, "ip-allowlist-resolver"}}

NoQuestion == [hasQuestion |-> FALSE, Name |-> "", Qtype |-> "", SourceIP |-> "10.0.0.1"]
Queries ==
    {NoQuestion} \cup
    {[hasQuestion |-> TRUE, Name |-> n, Qtype |-> t, SourceIP |-> ip] :
        n \in QNames, t \in QTypes, ip \in SourceIPs}

\* The queries asked between refresh ticks.
RefreshQueries == {q \in Queries : q.hasQuestion /\ q.Qtype = "A" /\ q.Name \in RuleDomains}

\* What GetNodeInfo and GetUserList may come back with: a value, the
\* not-modified sentinel, or another error (no value in either case).
NodeFetches ==
    {[outcome |-> "ok", value |-> n] : n \in RefreshNodeInfos}
    \cup {[outcome |-> o, value |-> NodeInfo({}, {}, "", <<>>)] : o \in {"not-modified", "error"}}
UserFetches ==
    {[outcome |-> "ok", value |-> u] : u \in SUBSET Users}
    \cup {[outcome |-> o, value |-> {}] : o \in {"not-modified", "error"}}

NoTick ==
    [node |-> "none", users |-> "none", allowChanged |-> FALSE, blockChanged |-> FALSE,
     deleted |-> {}, added |-> {}]
NoQuery == [asked |-> FALSE, q |-> NoQuestion, res |-> Reply("none", Nil, Nil, {}, 0, {})]

\* The panel part of a state in which no Panellist exists, and the builder
\* part of a state in which the builder is not under examination.
PanelNotBuilt ==
    /\ loaderOpt = [NodeInfo |-> NodeInfo({}, {}, "", <<>>), UserList |-> {}]
    /\ panelDB = PanelLoaderGet([NodeInfo |-> NodeInfo({}, {}, "", <<>>), UserList |-> {}], NoHosts)
    /\ panelOpt = NoAltResolvers
    /\ tick = NoTick
    /\ last = NoQuery

-----------------------------------------------------------------------------
(***************************************************************************)
(* GetPanelManager, step by step                                           *)
(***************************************************************************)

EmptyMap == [x \in {} |-> ResolverInstance]

InitBuild ==
    /\ cfg \in Configs
    /\ pc = "start"
    /\ err = "none"
    /\ resolvers = EmptyMap
    /\ instCount = [id \in AllIds |-> 0]
    /\ graph = [V |-> {}, E |-> {}]
    /\ leaves = {}
    /\ panelResolvers = <<>>
    /\ globals = [DefaultResolver |-> "system", XRAY_LOCATION_ASSET |-> "unset"]
    /\ PanelNotBuilt
    /\ NodeIdle
    /\ RotateIdle
    /\ TrieEmpty
    /\ ListenerIdle
    /\ CertIdle
    /\ ProcIdle
    /\ StopIdle
    /\ EcsIdle
    /\ RblIdle
    /\ DotIdle

Fail(reason) ==
    /\ pc' = "failed"
    /\ err' = reason

\* Lines 393-427: set the asset directory, then instantiate the bootstrap
\* resolver (if declared) and install it as net.DefaultResolver.
Bootstrap ==
    /\ pc = "start"
    /\ pc' = "graph"
    /\ IF cfg.BootstrapResolver
       THEN /\ resolvers' = (BootId :> ResolverInstance) @@ resolvers
            /\ globals' = [DefaultResolver |-> BootId, XRAY_LOCATION_ASSET |-> "pwd"]
       ELSE /\ resolvers' = resolvers
            /\ globals' = [globals EXCEPT !.XRAY_LOCATION_ASSET = "pwd"]
    /\ UNCHANGED <<cfg, err, instCount, graph, leaves, panelResolvers>>
    /\ UNCHANGED notBuildVars

\* Lines 428-488: vertices of resolvers and groups, the panel-rotate
\* preflight, vertices of routers, then the edges.
BuildGraph ==
    /\ pc = "graph"
    /\ IF DuplicateResolverGroupId(cfg) THEN Fail("duplicate-id") /\ graph' = graph
       ELSE IF PanelPreflightFails(cfg) THEN Fail("panel-topology") /\ graph' = graph
       ELSE IF DuplicateRouterId(cfg) THEN Fail("duplicate-id") /\ graph' = graph
       ELSE IF AddEdgesFails(cfg)
            THEN Fail("edge") /\ graph' = graph
       ELSE /\ graph' = [V |-> DeclaredIds(cfg), E |-> EdgeSet(cfg)]
            /\ pc' = "loop"
            /\ err' = err
    /\ UNCHANGED <<cfg, resolvers, instCount, leaves, panelResolvers, globals>>
    /\ UNCHANGED notBuildVars

\* Line 491-492: the loop head and graph.GetLeaves().
PickLeaves ==
    /\ pc = "loop"
    /\ IF graph.V = {}
       THEN pc' = "attach" /\ leaves' = leaves
       ELSE pc' = "leaves" /\ leaves' = GetLeaves(graph)
    /\ UNCHANGED <<cfg, err, resolvers, instCount, graph, panelResolvers, globals>>
    /\ UNCHANGED notBuildVars

\* Lines 493-521: one iteration of the range over the leaves (Go map order).
InstantiateLeaf ==
    /\ pc = "leaves"
    /\ IF leaves = {}
       THEN /\ pc' = "loop"
            /\ UNCHANGED <<err, resolvers, instCount, graph, leaves>>
       ELSE \E id \in leaves :
              IF CanInstantiate(cfg, id, resolvers)
              THEN /\ resolvers' = (id :> InstanceOf(cfg, id, resolvers)) @@ resolvers
                   /\ instCount' = [instCount EXCEPT ![id] = @ + 1]
                   /\ graph' = DeleteVertex(graph, id)
                   /\ leaves' = leaves \ {id}
                   /\ UNCHANGED <<pc, err>>
              ELSE /\ Fail("constructor")
                   /\ UNCHANGED <<resolvers, instCount, graph, leaves>>
    /\ UNCHANGED <<cfg, panelResolvers, globals>>
    /\ UNCHANGED notBuildVars

\* The orders in which a range over a Go map may have appended the ids S to
\* a slice: every id once.
Orderings(S) ==
    {s \in [1..Cardinality(S) -> S] : \A i, j \in DOMAIN s : i # j => s[i] # s[j]}

\* Mutant of AttachLoop: the attached nodes stay in the map.
AttachLoop_KeepsInMap(pr, res, pgm) ==
    [PanelResolvers |-> pr \o pgm, resolvers |-> res]

\* Lines 525-528, the loop over pgm: each entry is appended to
\* pr.PanelResolvers and deleted from the map.
AttachLoop(pr, res, pgm) ==
    [PanelResolvers |-> pr \o pgm,
     resolvers |-> [x \in DOMAIN res \ Range(pgm) |-> res[x]]]

\* Lines 523-530: attach every blocklist-panel to the panel-rotate and drop
\* it from the map. pgm was collected while ranging over config.Groups
\* (lines 438-452), so its order is the map's iteration order.
AttachPanels ==
    /\ pc = "attach"
    /\ pc' = "listeners"
    /\ IF Pgm(cfg) # {} /\ Pm(cfg) # {}
       THEN \E pgm \in Orderings(Pgm(cfg)) :
              LET r == AttachLoop(panelResolvers, resolvers, pgm)
              IN /\ panelResolvers' = r.PanelResolvers
                 /\ resolvers' = r.resolvers
       ELSE UNCHANGED <<panelResolvers, resolvers>>
    /\ UNCHANGED <<cfg, err, instCount, graph, leaves, globals>>
    /\ UNCHANGED notBuildVars

\* Lines 532-721: the listener must name a node of the map; then the Manager
\* is returned.
BuildListeners ==
    /\ pc = "listeners"
    /\ IF cfg.ListenerResolver \in DOMAIN resolvers
       THEN pc' = "done" /\ err' = err
       ELSE Fail("listener")
    /\ UNCHANGED <<cfg, resolvers, instCount, graph, leaves, panelResolvers, globals>>
    /\ UNCHANGED notBuildVars

NextBuild ==
    \/ Bootstrap
    \/ BuildGraph
    \/ PickLeaves
    \/ InstantiateLeaf
    \/ AttachPanels
    \/ BuildListeners

SpecBuild == InitBuild /\ [][NextBuild]_vars

-----------------------------------------------------------------------------
(***************************************************************************)
(* Properties of the builder                                               *)
(***************************************************************************)

UniqueIds(c) == ~DuplicateResolverGroupId(c) /\ ~DuplicateRouterId(c)
EveryReferenceResolves(c) == ~UnknownTarget(c)
Acyclic(c) == ~HasCycle(c)
ValidPanelTopology(c) == Pgm(c) # {} => Cardinality(Pm(c)) = 1

\* Well-formed as the claim defines it.
WellFormed(c) ==
    UniqueIds(c) /\ EveryReferenceResolves(c) /\ Acyclic(c) /\ ValidPanelTopology(c)

\* No group names the same node twice among its references.
NoRepeatedReference(c) == ~DuplicateEdge(c)

\* Every group has the number of children its type requires and every route
\* names a resolver.
ConstructorsAccept(c) ==
    /\ \A id \in DOMAIN c.Groups :
           LET g == c.Groups[id] IN
           /\ g.Type \in {"panel-rotate", "blocklist-panel"} => Len(g.Resolvers) = 1
           /\ "" \notin Range(g.Resolvers)
    /\ \A id \in DOMAIN c.Routers : "" \notin Range(c.Routers[id])

PastInstantiation ==
    pc \in {"attach", "listeners", "done"} \/ (pc = "failed" /\ err = "listener")

\* Every node instantiated so far was instantiated once, after all the nodes
\* it has an edge to, and while the loop runs those are in the map.
LeafFirstOrder ==
    /\ \A id \in Ids : instCount[id] <= 1
    /\ \A id \in Ids : instCount[id] = 1 =>
           \A e \in EdgeTargets(cfg, id) :
               /\ instCount[e] = 1
               /\ pc \in {"loop", "leaves"} => e \in DOMAIN resolvers
    /\ \A id \in Ids : id \in DOMAIN resolvers => instCount[id] = 1
    /\ PastInstantiation => \A id \in DeclaredIds(cfg) : instCount[id] = 1
    /\ pc \in {"done", "failed"} \/ ENABLED NextBuild

IllFormed(c) == ~WellFormed(c)

InitialGlobals == [DefaultResolver |-> "system", XRAY_LOCATION_ASSET |-> "unset"]

C4_ExactlyOnePanelRotate ==
    /\ (Pgm(cfg) # {} /\ Cardinality(Pm(cfg)) # 1) =>
           /\ pc \in {"start", "graph", "failed"}
           /\ \A id \in DOMAIN cfg.Groups : instCount[id] = 0
    /\ (pc = "done" /\ Pgm(cfg) # {}) => Cardinality(Pm(cfg)) = 1

\* C4 witness: a configuration with a blocklist-panel and two panel-rotate
\* groups, and no other defect, has been rejected by the preflight.
C4_Witness ==
    /\ pc = "failed" /\ err = "panel-topology"
    /\ Pgm(cfg) # {} /\ Cardinality(Pm(cfg)) = 2

-----------------------------------------------------------------------------
(***************************************************************************)
(* The Panellist at run time: refresh ticks and queries                    *)
(***************************************************************************)

\* The builder has returned; its variables no longer change.
BuilderReturned ==
    /\ cfg = [BootstrapResolver |-> FALSE, Resolvers |-> {}, Groups |-> [x \in {} |-> 0],
              Routers |-> [x \in {} |-> 0], ListenerResolver |-> "c"]
    /\ pc = "done"
    /\ err = "none"
    /\ resolvers = EmptyMap
    /\ instCount = [id \in AllIds |-> 0]
    /\ graph = [V |-> {}, E |-> {}]
    /\ leaves = {}
    /\ panelResolvers = <<>>
    /\ globals = [DefaultResolver |-> "system", XRAY_LOCATION_ASSET |-> "pwd"]

\* Mutant of RefreshTick: the tick also clears the resolvers wired into the
\* Panellist.
RefreshTick_RewiresChildren ==
    \E node \in NodeFetches, users \in UserFetches :
        LET r == RefreshOnce(panelDB, loaderOpt, node.outcome, users.outcome,
                             node.value, users.value)
            applied == node.outcome # "error" /\ users.outcome # "error"
            c == CompareUserList(loaderOpt.UserList, users.value)
        IN /\ panelDB' = r.DB
           /\ loaderOpt' = r.opt
           /\ tick' = [node |-> node.outcome,
                       users |-> IF node.outcome = "error" THEN "none" ELSE users.outcome,
                       allowChanged |-> applied /\ node.outcome = "ok"
                                        /\ node.value.Allow # loaderOpt.NodeInfo.Allow,
                       blockChanged |-> applied /\ node.outcome = "ok"
                                        /\ node.value.Block # loaderOpt.NodeInfo.Block,
                       deleted |-> IF applied /\ users.outcome = "ok" THEN c.deleted ELSE {},
                       added |-> IF applied /\ users.outcome = "ok" THEN c.added ELSE {}]
           /\ last' = NoQuery
           /\ panelOpt' = NoAltResolvers
           /\ UNCHANGED notPanelVars

\* One iteration of refreshLoop (lines 621-730), as one step: the loop holds
\* r.mu around each change and Resolve reads r.DB under the read lock.
RefreshTick ==
    \E node \in NodeFetches, users \in UserFetches :
        LET r == RefreshOnce(panelDB, loaderOpt, node.outcome, users.outcome,
                             node.value, users.value)
            applied == node.outcome # "error" /\ users.outcome # "error"
            c == CompareUserList(loaderOpt.UserList, users.value)
        IN /\ panelDB' = r.DB
           /\ loaderOpt' = r.opt
           /\ tick' = [node |-> node.outcome,
                       users |-> IF node.outcome = "error" THEN "none" ELSE users.outcome,
                       allowChanged |-> applied /\ node.outcome = "ok"
                                        /\ node.value.Allow # loaderOpt.NodeInfo.Allow,
                       blockChanged |-> applied /\ node.outcome = "ok"
                                        /\ node.value.Block # loaderOpt.NodeInfo.Block,
                       deleted |-> IF applied /\ users.outcome = "ok" THEN c.deleted ELSE {},
                       added |-> IF applied /\ users.outcome = "ok" THEN c.added ELSE {}]
           /\ last' = NoQuery
           /\ UNCHANGED panelOpt
           /\ UNCHANGED notPanelVars

\* One call of Panellist.Resolve, for a query of the set Q.
ResolveQuery(Q) ==
    \E q \in Q :
        /\ last' = [asked |-> TRUE, q |-> q, res |-> Resolve(q, panelDB, panelOpt)]
        /\ UNCHANGED <<loaderOpt, panelDB, panelOpt, tick>>
        /\ UNCHANGED notPanelVars

InitRefresh ==
    /\ BuilderReturned
    /\ NodeIdle
    /\ RotateIdle
    /\ TrieEmpty
    /\ ListenerIdle
    /\ CertIdle
    /\ ProcIdle
    /\ StopIdle
    /\ EcsIdle
    /\ RblIdle
    /\ DotIdle
    /\ loaderOpt \in {[NodeInfo |-> n, UserList |-> u] : n \in RefreshNodeInfos, u \in SUBSET Users}
    /\ panelDB = PanelLoaderGet(loaderOpt, NoHosts)
    /\ panelOpt = NoAltResolvers
    /\ tick = NoTick
    /\ last = NoQuery

NextRefresh ==
    \/ RefreshTick
    \/ ResolveQuery(RefreshQueries)

SpecRefresh == InitRefresh /\ [][NextRefresh]_vars

InitResolve ==
    /\ BuilderReturned
    /\ NodeIdle
    /\ RotateIdle
    /\ TrieEmpty
    /\ ListenerIdle
    /\ CertIdle
    /\ ProcIdle
    /\ StopIdle
    /\ EcsIdle
    /\ RblIdle
    /\ DotIdle
    /\ loaderOpt \in {[NodeInfo |-> n, UserList |-> u] :
                        n \in ResolveNodeInfos, u \in {{}, {[Passwd |-> "10.0.0.1"]}}}
    /\ \E h \in HostData : panelDB = PanelLoaderGet(loaderOpt, h)
    /\ panelOpt \in AltResolvers
    /\ tick = NoTick
    /\ last = NoQuery

NextResolve == ResolveQuery(Queries)

SpecResolve == InitResolve /\ [][NextResolve]_vars

-----------------------------------------------------------------------------
(***************************************************************************)
(* Properties of the refresh loop                                          *)
(***************************************************************************)

\* C5: after a refresh tick in which the fetched node-info differs from the
\* baseline in its allow (block) rules, a query resolved after the tick is
\* matched against an allow (block) DB built from the new rules.
C5_QueriesMatchNewRules ==
    last.asked =>
        /\ tick.allowChanged =>
             panelDB.AllowlistDB.domains = loaderOpt.NodeInfo.Allow
        /\ tick.blockChanged =>
             panelDB.BlocklistDB.domains = loaderOpt.NodeInfo.Block

\* C6: after a refresh tick in which the user list changed, every added
\* user's address matches the IP allowlist DB and every deleted user's
\* address no longer matches it.
C6_AddedMatchDeletedDoNot ==
    tick.users = "ok" =>
        /\ \A u \in tick.added : CidrMatch(panelDB.IpAllowlistDB, u.Passwd)
        /\ \A u \in tick.deleted : ~CidrMatch(panelDB.IpAllowlistDB, u.Passwd)

TickFailed == tick.node = "error" \/ tick.users = "error"

\* C7: a refresh tick in which fetching the node-info or the user list fails
\* with an error other than not-modified leaves the matcher DBs, the SOCKS5
\* dialer and the baseline node-info and user list as they were, and the
\* loop can run its next tick.
C7_FailedTickChangesNothing ==
    /\ [][TickFailed' => UNCHANGED <<panelDB, loaderOpt>>]_vars
    /\ [](TickFailed => ENABLED RefreshTick)

\* A tick whose node-info fetch succeeded and whose user-list fetch failed,
\* on a baseline with rules, users and a dialer to lose.
C7_Witness ==
    /\ tick.node = "ok" /\ tick.users = "error"
    /\ loaderOpt.UserList # {}
    /\ panelDB.Socks5Dialer # Nil

-----------------------------------------------------------------------------
(***************************************************************************)
(* Properties of Resolve                                                   *)
(***************************************************************************)

\* The address is covered by a rule of the IP allowlist DB.
SrcCovered(db, ip) == \E i \in DOMAIN db.cidrs : ip \in db.cidrs[i].Cidr

\* The address family an A or AAAA question asks for.
QFamily(qtype) == IF qtype = "A" THEN 4 ELSE IF qtype = "AAAA" THEN 6 ELSE 0

\* C8: when the client source IP does not match the IP allowlist DB, the
\* query is answered by ip-allow-list-resolver if one is set and otherwise
\* with REFUSED; the block DB, the allow DB, the spoof list and the default
\* upstream child are not consulted.
C8_AllowlistMissStopsThere ==
    (last.asked /\ last.q.hasQuestion
        /\ ~SrcCovered(panelDB.IpAllowlistDB, last.q.SourceIP)) =>
        /\ IF panelOpt.IpAllowListResolver # Nil
           THEN last.res.kind = "forward" /\ last.res.to = panelOpt.IpAllowListResolver
           ELSE last.res.kind = "refused"
        /\ last.res.consulted = {"ipallow"}
        /\ last.res.to # Upstream

\* A client outside the allowlist asks for a blocked name and is refused.
C8_Witness ==
    /\ last.asked /\ last.q.hasQuestion
    /\ ~SrcCovered(panelDB.IpAllowlistDB, last.q.SourceIP)
    /\ Len(panelDB.IpAllowlistDB.cidrs) > 0
    /\ last.q.Name \in panelDB.BlocklistDB.domains
    /\ panelDB.Spoof # <<>>
    /\ last.res.kind = "refused"

\* C9: the block DB is matched before the allow DB, and a block hit is
\* resolved by the first applicable of: PTR question with names -> PTR
\* response with at most maxPTRResponses names; block-list-resolver set ->
\* forwarded to it; DB-supplied IPs of the asked family -> synthesised
\* A/AAAA answer with TTL 3600; otherwise NXDOMAIN.  A block hit is never
\* forwarded to the default upstream child.
C9_BlockHitPriority ==
    (last.asked /\ last.q.hasQuestion
        /\ SrcCovered(panelDB.IpAllowlistDB, last.q.SourceIP)
        /\ last.q.Name \in panelDB.BlocklistDB.domains) =>
        LET q == last.q
            r == last.res
            db == panelDB.BlocklistDB
            wanted == {ip \in db.ips : ip.fam = QFamily(q.Qtype)}
        IN /\ "allow" \notin r.consulted
           /\ "spoof" \notin r.consulted
           /\ r.to # Upstream
           /\ IF q.Qtype = "PTR" /\ db.names > 0
              THEN /\ r.kind = "ptr"
                   /\ r.names <= maxPTRResponses
                   /\ r.names = db.names \/ r.names = maxPTRResponses
              ELSE IF panelOpt.BlockListResolver # Nil
              THEN r.kind = "forward" /\ r.to = panelOpt.BlockListResolver
              ELSE IF wanted # {}
              THEN /\ r.kind = "answer"
                   /\ {rr.addr : rr \in r.rrs} = {ip.addr : ip \in wanted}
                   /\ \A rr \in r.rrs : rr.Ttl = 3600 /\ rr.Rrtype = q.Qtype
              ELSE r.kind = "nxdomain"

\* A name on both lists: a PTR question for it gets the capped names
\* although a block-list-resolver is set.
C9_Witness ==
    /\ last.asked /\ last.q.hasQuestion
    /\ SrcCovered(panelDB.IpAllowlistDB, last.q.SourceIP)
    /\ last.q.Name \in panelDB.BlocklistDB.domains
    /\ last.q.Name \in panelDB.AllowlistDB.domains
    /\ last.q.Qtype = "PTR"
    /\ panelDB.BlocklistDB.names > maxPTRResponses
    /\ panelOpt.BlockListResolver # Nil
    /\ last.res.kind = "ptr"

\* The query came to the spoof step: it was answered from the spoof list or
\* handed to the default upstream child.
ReachedSpoofStep == last.res.to = Upstream \/ "spoof" \in last.res.consulted

\* C10: when the panel supplies a spoof list and a query reaches the spoof
\* step, an A question is answered with exactly the IPv4 addresses the panel
\* listed and an AAAA question with exactly the IPv6 addresses it listed
\* (TTL 3600, no upstream call), and a synthesised answer never carries an
\* address of the other family.
C10_SpoofAnswersByFamily ==
    (last.asked /\ last.q.hasQuestion /\ ReachedSpoofStep
        /\ loaderOpt.NodeInfo.Spoof # <<>>
        /\ last.q.Qtype \in {"A", "AAAA"}) =>
        LET r == last.res
            listed == {s \in Range(loaderOpt.NodeInfo.Spoof) :
                          TextFamily(s) = QFamily(last.q.Qtype)}
        IN /\ \A rr \in r.rrs : rr.fam = QFamily(last.q.Qtype)
           /\ listed # {} =>
                /\ r.kind = "answer"
                /\ {rr.addr : rr \in r.rrs} = listed
                /\ \A rr \in r.rrs : rr.Ttl = 3600
                /\ r.to # Upstream

-----------------------------------------------------------------------------
(***************************************************************************)
(* ClientAllowlist and ResponseBlocklistIP: the reload loop and the Match  *)
(* calls of Resolve.  Both nodes have the same loop (refreshLoopAllowlist, *)
(* refreshLoopBlocklist) and both call Match on the DB field without       *)
(* taking r.mu.                                                            *)
(***************************************************************************)

\* How many times the loop may build a new DB instance.
MaxReloads == 2

\* r.AllowlistDB.Match(...): the goroutine first reads the DB field.  The
\* read is not synchronised with the loop's write; it yields the instance
\* stored before or after that write.
LoadDB(g) ==
    /\ rd[g].pc = "idle"
    /\ rd' = [rd EXCEPT ![g] = [pc |-> "loaded", db |-> dbCur]]
    /\ UNCHANGED <<mu, dbCur, dbClosed, loop, overlap>>
    /\ UNCHANGED notLockVars

\* ... and then runs Match on the instance it read.
MatchDB(g) ==
    /\ rd[g].pc = "loaded"
    /\ overlap' = (overlap \/ rd[g].db \in dbClosed)
    /\ rd' = [rd EXCEPT ![g] = [pc |-> "idle", db |-> 0]]
    /\ UNCHANGED <<mu, dbCur, dbClosed, loop>>
    /\ UNCHANGED notLockVars

\* db, err := r.AllowlistDB.Reload(): a new instance, or an error and the
\* next round.
LoopReload ==
    /\ loop.pc = "sleep"
    /\ \/ /\ dbCur <= MaxReloads
          /\ loop' = [pc |-> "built", new |-> dbCur + 1]
       \/ loop' = loop
    /\ UNCHANGED <<mu, dbCur, dbClosed, rd, overlap>>
    /\ UNCHANGED notLockVars

\* r.mu.Lock()
LoopLock ==
    /\ loop.pc = "built"
    /\ ~mu.writer /\ mu.readers = 0
    /\ mu' = [mu EXCEPT !.writer = TRUE]
    /\ loop' = [loop EXCEPT !.pc = "locked"]
    /\ UNCHANGED <<dbCur, dbClosed, rd, overlap>>
    /\ UNCHANGED notLockVars

\* r.AllowlistDB.Close(): the field still holds the old instance.
LoopClose ==
    /\ loop.pc = "locked"
    /\ dbClosed' = dbClosed \cup {dbCur}
    /\ loop' = [loop EXCEPT !.pc = "closed"]
    /\ UNCHANGED <<mu, dbCur, rd, overlap>>
    /\ UNCHANGED notLockVars

\* r.AllowlistDB = db
LoopSwap ==
    /\ loop.pc = "closed"
    /\ dbCur' = loop.new
    /\ loop' = [pc |-> "swapped", new |-> 0]
    /\ UNCHANGED <<mu, dbClosed, rd, overlap>>
    /\ UNCHANGED notLockVars

\* r.mu.Unlock()
LoopUnlock ==
    /\ loop.pc = "swapped"
    /\ mu' = [mu EXCEPT !.writer = FALSE]
    /\ loop' = [loop EXCEPT !.pc = "sleep"]
    /\ UNCHANGED <<dbCur, dbClosed, rd, overlap>>
    /\ UNCHANGED notLockVars

InitReload ==
    /\ BuilderReturned
    /\ PanelNotBuilt
    /\ NodeIdle
    /\ RotateIdle
    /\ TrieEmpty
    /\ ListenerIdle
    /\ CertIdle
    /\ ProcIdle
    /\ StopIdle
    /\ EcsIdle
    /\ RblIdle
    /\ DotIdle

NextReload ==
    \/ \E g \in Callers : LoadDB(g)
    \/ \E g \in Callers : MatchDB(g)
    \/ LoopReload
    \/ LoopLock
    \/ LoopClose
    \/ LoopSwap
    \/ LoopUnlock

SpecReload == InitReload /\ [][NextReload]_vars

\* C11: under any interleaving of the reload loop with concurrent Resolve
\* calls, no Resolve call runs Match on a DB instance on which Close has
\* already been called, the old instance being closed only after the swap.
C11_NoMatchOnClosedDB == ~overlap

-----------------------------------------------------------------------------
(***************************************************************************)
(* Panellist: the locking of Resolve and of the Add/Remove calls of        *)
(* refreshLoop.  Add and Remove change the IP allowlist DB in place, so    *)
(* the DB field keeps pointing to the same instance.                       *)
(***************************************************************************)

\* Lines 439-442: r.mu.RLock() and the copies of the DB fields.
ResolveRLock(g) ==
    /\ rd[g].pc = "idle"
    /\ ~mu.writer
    /\ mu' = [mu EXCEPT !.readers = @ + 1]
    /\ rd' = [rd EXCEPT ![g] = [pc |-> "rlocked", db |-> dbCur]]
    /\ UNCHANGED <<dbCur, dbClosed, loop, overlap>>
    /\ UNCHANGED notLockVars

\* Line 443: r.mu.RUnlock()
ResolveRUnlock(g) ==
    /\ rd[g].pc = "rlocked"
    /\ mu' = [mu EXCEPT !.readers = @ - 1]
    /\ rd' = [rd EXCEPT ![g].pc = "copied"]
    /\ UNCHANGED <<dbCur, dbClosed, loop, overlap>>
    /\ UNCHANGED notLockVars

\* Line 447: ipallowlistDB.Match(ci.SourceIP) is entered ...
MatchBegin(g) ==
    /\ rd[g].pc = "copied"
    /\ rd' = [rd EXCEPT ![g].pc = "matching"]
    /\ UNCHANGED <<mu, dbCur, dbClosed, loop, overlap>>
    /\ UNCHANGED notLockVars

\* ... and returns.
MatchEnd(g) ==
    /\ rd[g].pc = "matching"
    /\ rd' = [rd EXCEPT ![g] = [pc |-> "idle", db |-> 0]]
    /\ UNCHANGED <<mu, dbCur, dbClosed, loop, overlap>>
    /\ UNCHANGED notLockVars

\* Lines 704 and 716: r.mu.Lock()
MutateLock ==
    /\ loop.pc = "sleep"
    /\ ~mu.writer /\ mu.readers = 0
    /\ mu' = [mu EXCEPT !.writer = TRUE]
    /\ loop' = [loop EXCEPT !.pc = "locked"]
    /\ UNCHANGED <<dbCur, dbClosed, rd, overlap>>
    /\ UNCHANGED notLockVars

\* Lines 705 and 717: r.DB.IpAllowlistDB.Remove / Add is entered ...
MutateBegin ==
    /\ loop.pc = "locked"
    /\ loop' = [loop EXCEPT !.pc = "mutating"]
    /\ UNCHANGED <<mu, dbCur, dbClosed, rd, overlap>>
    /\ UNCHANGED notLockVars

\* ... and returns.
MutateEnd ==
    /\ loop.pc = "mutating"
    /\ loop' = [loop EXCEPT !.pc = "mutated"]
    /\ UNCHANGED <<mu, dbCur, dbClosed, rd, overlap>>
    /\ UNCHANGED notLockVars

\* Lines 706 and 718: r.mu.Unlock()
MutateUnlock ==
    /\ loop.pc = "mutated"
    /\ mu' = [mu EXCEPT !.writer = FALSE]
    /\ loop' = [loop EXCEPT !.pc = "sleep"]
    /\ UNCHANGED <<dbCur, dbClosed, rd, overlap>>
    /\ UNCHANGED notLockVars

InitPanelLock ==
    /\ BuilderReturned
    /\ PanelNotBuilt
    /\ NodeIdle
    /\ RotateIdle
    /\ TrieEmpty
    /\ ListenerIdle
    /\ CertIdle
    /\ ProcIdle
    /\ StopIdle
    /\ EcsIdle
    /\ RblIdle
    /\ DotIdle

NextPanelLock ==
    \/ \E g \in Callers : ResolveRLock(g)
    \/ \E g \in Callers : ResolveRUnlock(g)
    \/ \E g \in Callers : MatchBegin(g)
    \/ \E g \in Callers : MatchEnd(g)
    \/ MutateLock
    \/ MutateBegin
    \/ MutateEnd
    \/ MutateUnlock

SpecPanelLock == InitPanelLock /\ [][NextPanelLock]_vars

\* C12: in Panellist, an Add or Remove on the IP allowlist DB never executes
\* concurrently with a Match on that same DB issued by Resolve.
C12_NoMatchDuringAddRemove ==
    loop.pc = "mutating" =>
        \A g \in Callers : ~(rd[g].pc = "matching" /\ rd[g].db = dbCur)

-----------------------------------------------------------------------------
(***************************************************************************)
(* PanelRotate.Resolve                                                     *)
(***************************************************************************)

\* Most panel resolvers attached to the panel-rotate.
MaxPanels == 3

\* What a panel resolver's Resolve comes back with: an answer from its
\* upstream, the REFUSED a Panellist makes for a client that is not on its
\* IP allowlist, a SERVFAIL response, an error, or a nil response without
\* error.
ResponseKinds == {"ok", "refused", "servfail", "error", "nil"}

\* Mutant of IsSuccess: a SERVFAIL response counts as a success too.
IsSuccess_ServfailToo(resp) == resp.kind \in {"ok", "refused", "nil", "servfail"}

\* Line 54: err == nil && (a == nil || a.Rcode != dns.RcodeServerFailure)
IsSuccess(resp) == resp.kind \in {"ok", "refused", "nil"}

\* Mutant of ChanCap: a channel that holds one response.
ChanCap_One(n) == IF n = 0 THEN 0 ELSE 1

\* Line 38: the capacity of responseCh.
ChanCap(n) == n

\* Lines 38-47: make the channel and start one goroutine per panel resolver.
Dispatch ==
    /\ rotMain.pc = "start"
    /\ rotKids' = [c \in DOMAIN rotKids |-> "running"]
    /\ rotMain' = [rotMain EXCEPT !.pc = "waiting"]
    /\ UNCHANGED <<rotCh, rotArrived>>
    /\ UNCHANGED notRotateVars

\* Lines 44-45: the panel resolver returns and its goroutine sends the
\* response; the send waits while the channel is full.
ChildSend(c) ==
    /\ rotKids[c] = "running"
    /\ Len(rotCh) < ChanCap(Len(rotKids))
    /\ \E k \in ResponseKinds :
        /\ rotCh' = Append(rotCh, [from |-> c, kind |-> k])
        /\ rotArrived' = Append(rotArrived, [from |-> c, kind |-> k])
    /\ rotKids' = [rotKids EXCEPT ![c] = "sent"]
    /\ UNCHANGED rotMain
    /\ UNCHANGED notRotateVars

\* Lines 52-64: one iteration of the range over responseCh.
MainReceive ==
    /\ rotMain.pc = "waiting"
    /\ rotCh # <<>>
    /\ rotCh' = Tail(rotCh)
    /\ rotMain' =
         IF IsSuccess(Head(rotCh)) \/ rotMain.i + 1 >= Len(rotKids)
         THEN [pc |-> "returned", i |-> rotMain.i, ret |-> Head(rotCh),
               returns |-> rotMain.returns + 1]
         ELSE [rotMain EXCEPT !.i = @ + 1]
    /\ UNCHANGED <<rotKids, rotArrived>>
    /\ UNCHANGED notRotateVars

InitRotate ==
    /\ BuilderReturned
    /\ PanelNotBuilt
    /\ NodeIdle
    /\ TrieEmpty
    /\ ListenerIdle
    /\ CertIdle
    /\ ProcIdle
    /\ StopIdle
    /\ EcsIdle
    /\ RblIdle
    /\ DotIdle
    /\ \E n \in 0..MaxPanels : rotKids = [c \in 1..n |-> "idle"]
    /\ rotCh = <<>>
    /\ rotArrived = <<>>
    /\ rotMain = [pc |-> "start", i |-> 0, ret |-> NoResponse, returns |-> 0]

NextRotate ==
    \/ Dispatch
    \/ \E c \in DOMAIN rotKids : ChildSend(c)
    \/ MainReceive

SpecRotate == InitRotate /\ [][NextRotate]_vars

\* The Go scheduler runs every goroutine that can take a step.
SpecRotateLive ==
    /\ SpecRotate
    /\ WF_vars(Dispatch)
    /\ WF_vars(MainReceive)
    /\ \A c \in 1..MaxPanels : WF_vars(c \in DOMAIN rotKids /\ ChildSend(c))

\* C13: PanelRotate.Resolve returns the first response, in arrival order,
\* that has no error and whose Rcode is not SERVFAIL; if every panel
\* resolver fails, it returns the failure that arrived last.
C13_FirstSuccessOrLastFailure ==
    rotMain.pc = "returned" =>
        \E k \in DOMAIN rotArrived :
            /\ rotMain.ret = rotArrived[k]
            /\ \A j \in 1..(k - 1) : rotArrived[j].kind \in {"servfail", "error"}
            /\ \/ rotArrived[k].kind \notin {"servfail", "error"}
               \/ k = Len(rotKids)

\* The call returned the second arrival, the first being a failure, while a
\* third panel resolver was still running.
C13_Witness ==
    /\ rotMain.pc = "returned"
    /\ Len(rotArrived) >= 2
    /\ rotArrived[1].kind = "error"
    /\ rotMain.ret = rotArrived[2]
    /\ rotMain.ret.kind = "ok"
    /\ \E c \in DOMAIN rotKids : rotKids[c] = "running"

\* All panel resolvers failed and the last arrival, a SERVFAIL, came back.
C13_WitnessAllFail ==
    /\ rotMain.pc = "returned"
    /\ Len(rotKids) >= 2
    /\ rotMain.ret.kind = "servfail"
    /\ rotMain.ret = rotArrived[Len(rotKids)]

\* C14: once some panel resolver has delivered a non-error, non-SERVFAIL
\* response, Resolve returns without waiting for the slower children; the
\* caller receives one response only; and every abandoned child can still
\* deliver its result: its send never waits and it finishes.
C14_ReturnsEarlyOnceAndLeavesNoChildStuck ==
    /\ [](rotMain.returns <= 1)
    /\ [](\A c \in DOMAIN rotKids : rotKids[c] = "running" => ENABLED ChildSend(c))
    /\ [](rotMain.pc = "waiting" /\ rotCh # <<>> => ENABLED MainReceive)
    /\ (\E k \in DOMAIN rotArrived : rotArrived[k].kind \in {"ok", "nil"})
          ~> (rotMain.pc = "returned")
    /\ (rotMain.pc = "waiting") ~> (\A c \in DOMAIN rotKids : rotKids[c] = "sent")

\* Resolve has returned a success while another child is still running.
C14_Witness ==
    /\ rotMain.pc = "returned"
    /\ rotMain.ret.kind = "ok"
    /\ Len(rotKids) >= 3
    /\ Len(rotArrived) = 1

-----------------------------------------------------------------------------
(***************************************************************************)
(* ipBlocklistTrie: add and hasIP.  An address is its bits from the left,  *)
(* a network the bits of its prefix; a node of the trie is named by the    *)
(* path of bits that leads to it from the root.                            *)
(***************************************************************************)

\* The number of bits of an address (size in hasIP), scaled down.
AddrBits == 2

\* How many add calls are examined.
MaxAdds == 3

Bits == {0, 1}
TrieIPs == [1..AddrBits -> Bits]
TrieNets == UNION {[1..n -> Bits] : n \in 0..AddrBits}

\* The first i bits of a path.
Prefix(b, i) == SubSeq(b, 1, i)

\* p is an ancestor of q or q itself.
IsPrefixOf(p, q) == Len(p) <= Len(q) /\ Prefix(q, Len(p)) = p

\* add, lines 60-89: walk down the bits of the prefix, creating the nodes,
\* and stop early at a leaf; the node reached loses its children and
\* becomes a leaf.
TrieAdd(t, n) ==
    LET stops == {i \in 0..(Len(n) - 1) : Prefix(n, i) \in t.leaf}
        d == IF stops = {} THEN Len(n)
             ELSE CHOOSE i \in stops : \A j \in stops : i <= j
        p == Prefix(n, d)
        walked == {Prefix(n, i) : i \in 0..d}
        below(q) == IsPrefixOf(p, q) /\ q # p
    IN [nodes |-> {q \in t.nodes \cup walked : ~below(q)},
        leaf |-> {q \in t.leaf : ~below(q)} \cup {p}]

\* Mutant of RuleString: the address is not masked.
RuleString_FullAddress(ip, maskBits) == ip

\* ruleString(ip, maskBits), lines 191-202: the network of the first
\* maskBits bits of ip.
RuleString(ip, maskBits) == Prefix(ip, maskBits)

\* Mutant of TrieWalk: no match once every bit of the address is consumed.
RECURSIVE TrieWalk_NoHostMatch(_, _, _)
TrieWalk_NoHostMatch(t, ip, i) ==
    IF i = AddrBits THEN [rule |-> <<>>, ok |-> FALSE]
    ELSE IF Prefix(ip, i) \in t.leaf THEN [rule |-> RuleString(ip, i), ok |-> TRUE]
    ELSE IF Prefix(ip, i + 1) \notin t.nodes THEN [rule |-> <<>>, ok |-> FALSE]
    ELSE TrieWalk_NoHostMatch(t, ip, i + 1)

\* hasIP, lines 103-121: the loop from bit i on, and the return after it.
RECURSIVE TrieWalk(_, _, _)
TrieWalk(t, ip, i) ==
    IF i = AddrBits THEN [rule |-> RuleString(ip, AddrBits), ok |-> TRUE]
    ELSE IF Prefix(ip, i) \in t.leaf THEN [rule |-> RuleString(ip, i), ok |-> TRUE]
    ELSE IF Prefix(ip, i + 1) \notin t.nodes THEN [rule |-> <<>>, ok |-> FALSE]
    ELSE TrieWalk(t, ip, i + 1)

\* hasIP, lines 92-122.
HasIP(t, ip) ==
    IF t.nodes = {} THEN [rule |-> <<>>, ok |-> FALSE] ELSE TrieWalk(t, ip, 0)

\* One call of add.
AddNet ==
    /\ Cardinality(trieAdded) < MaxAdds
    /\ \E n \in TrieNets \ trieAdded :
        /\ trie' = TrieAdd(trie, n)
        /\ trieAdded' = trieAdded \cup {n}
    /\ trieLast' = NoLookup
    /\ UNCHANGED notTrieVars

\* One call of hasIP.
LookupIP ==
    /\ \E ip \in TrieIPs :
        LET r == HasIP(trie, ip)
        IN trieLast' = [asked |-> TRUE, ip |-> ip, rule |-> r.rule, ok |-> r.ok]
    /\ UNCHANGED <<trie, trieAdded>>
    /\ UNCHANGED notTrieVars

InitTrie ==
    /\ BuilderReturned
    /\ PanelNotBuilt
    /\ NodeIdle
    /\ RotateIdle
    /\ TrieEmpty
    /\ ListenerIdle
    /\ CertIdle
    /\ ProcIdle
    /\ StopIdle
    /\ EcsIdle
    /\ RblIdle
    /\ DotIdle

NextTrie ==
    \/ AddNet
    \/ LookupIP

SpecTrie == InitTrie /\ [][NextTrie]_vars

\* The added networks that cover the address.
Covering(ip) == {n \in trieAdded : IsPrefixOf(n, ip)}

\* C15: after any sequence of add calls, hasIP(x) reports a match if and
\* only if at least one of the added networks covers x.
C15_MatchIffCovered ==
    trieLast.asked => (trieLast.ok <=> Covering(trieLast.ip) # {})

\* Two networks were added, the longer one first or last; the address
\* looked up lies in both.
C15_Witness ==
    /\ trieLast.asked /\ trieLast.ok
    /\ Cardinality(Covering(trieLast.ip)) >= 2
    /\ \E n \in trieAdded : ~IsPrefixOf(n, trieLast.ip)

\* C16: when several added networks cover an address, the rule returned by
\* hasIP is the one with the shortest prefix among them, whichever was
\* added first.
C16_RuleIsShortestCovering ==
    (trieLast.asked /\ Covering(trieLast.ip) # {}) =>
        /\ trieLast.rule \in Covering(trieLast.ip)
        /\ \A n \in Covering(trieLast.ip) : Len(trieLast.rule) <= Len(n)

\* Two nested networks and a third one were added; the shorter of the two
\* is reported.
C16_Witness ==
    /\ trieLast.asked /\ trieLast.ok
    /\ Cardinality(trieAdded) = 3
    /\ Cardinality(Covering(trieLast.ip)) = 2
    /\ Len(trieLast.rule) = 1

-----------------------------------------------------------------------------
(***************************************************************************)
(* The listeners.  The udp, tcp, dot and dtls listeners share              *)
(* listenHandler; the DoQ listener checks the allowed-nets once per        *)
(* connection in handleConnection and serves every stream of an accepted   *)
(* connection in handleStream.  A handler shares nothing with the other    *)
(* handler goroutines but the expvar counters, whose Add is atomic, so one *)
(* handler call is one step.  The resolver behind the listener is the      *)
(* environment: its result is an input of the step.                        *)
(***************************************************************************)

\* The handled queries, connections and streams of one behaviour.
MaxQueries == 3

\* The protocol argument NewDNSListener, NewDoTListener and NewDTLSListener
\* hand to listenHandler.
Protocols == {"udp", "tcp", "dot", "dtls"}

\* The source addresses getOriginalIP and getQuicOriginalIP return; "<nil>"
\* is the nil net.IP of a peer that is neither a TCP nor a UDP address.
LsnSources == {"10.0.0.1", "10.0.0.2", Nil}

\* The AllowedNet options; a *net.IPNet is the set of addresses it Contains.
AllowedNetLists ==
    {<<>>, <<{"10.0.0.1"}>>, <<{"10.0.0.1"}, {"10.0.0.2"}>>}

\* What r.Resolve returns: a response with an Rcode and no error, an error,
\* or a nil response with no error (drop).
ResolverOutcomes == {"NOERROR", "NXDOMAIN", "error", "nil"}

\* The EDNS(0) options a query may carry.
EdnsOptions == {"EDNS0TCPKEEPALIVE", "EDNS0PADDING"}

\* What arrives on a QUIC stream: bytes that cannot be read in full, bytes
\* that do not unpack, or a query with its EDNS(0) options.
StreamInputs ==
    {[kind |-> k, options |-> {}] : k \in {"readerr", "garbage"}}
        \cup {[kind |-> "query", options |-> o] : o \in SUBSET EdnsOptions}

\* isAllowed: an empty list allows every address, otherwise one of the
\* networks has to contain the address.
isAllowed(allowedNet, ip) ==
    \/ Len(allowedNet) = 0
    \/ \E i \in 1..Len(allowedNet) : ip \in allowedNet[i]

\* servfail(req), and the SetRcode(q, dns.RcodeServerFailure) of handleStream.
servfail == "SERVFAIL"

\* expvar Add(1) on one counter.
Add1(m, counter) == [m EXCEPT ![counter] = @ + 1]

\* Mutant of hasKeepalive: the option is not looked for.
hasKeepalive_NotLookedFor(q) == FALSE

\* The loop over edns0.Option of handleStream: the query carries an
\* edns-tcp-keepalive option.
hasKeepalive(q) == "EDNS0TCPKEEPALIVE" \in q.options

\* listenHandler: one query on a udp, tcp, dot or dtls listener.  Padding and
\* truncation change the size of the answer, not its Rcode; WriteMsg is
\* taken to succeed.
listenHandler(protocol) ==
    /\ ~lsnCrashed
    /\ lsnLast.n < MaxQueries
    /\ \E src \in LsnSources, out \in ResolverOutcomes :
        LET allowed == isAllowed(lsnAllowed, src)
            failed == allowed /\ out = "error"
            a == IF ~allowed THEN "REFUSED"
                 ELSE IF failed THEN servfail
                 ELSE IF out = "nil" THEN Nil
                 ELSE out
            m1 == Add1(lsnMetrics, "query")
            m2 == IF ~allowed THEN Add1(m1, "acl")
                  ELSE IF failed THEN Add1(m1, "resolve")
                  ELSE m1
            m3 == IF a = Nil THEN Add1(m2, "drop") ELSE Add1(m2, "response")
        IN /\ lsnLast' = [n |-> lsnLast.n + 1, proto |-> protocol,
                          src |-> src, input |-> "query", options |-> {},
                          resolved |-> allowed,
                          out |-> IF allowed THEN out ELSE "notcalled",
                          written |-> IF a = Nil THEN "none" ELSE a,
                          closed |-> (a = Nil)]
           /\ lsnMetrics' = m3
    /\ UNCHANGED <<lsnAllowed, lsnConn, lsnCrashed>>
    /\ UNCHANGED notListenerVars

\* DoQListener.handleConnection up to its accept loop: a connection whose
\* source is not allowed is counted as a drop and handleConnection returns,
\* Start then closes the connection; nothing is written.
handleConnection ==
    /\ ~lsnCrashed
    /\ lsnLast.n < MaxQueries
    /\ lsnConn.state # "accepted"
    /\ \E src \in LsnSources :
        LET allowed == isAllowed(lsnAllowed, src)
        IN /\ lsnConn' = [state |-> IF allowed THEN "accepted" ELSE "rejected",
                          src |-> src]
           /\ lsnLast' = [n |-> lsnLast.n + 1, proto |-> "doq", src |-> src,
                          input |-> "connection", options |-> {},
                          resolved |-> FALSE,
                          out |-> "notcalled", written |-> "none",
                          closed |-> ~allowed]
           /\ lsnMetrics' = Add1(lsnMetrics,
                                 IF allowed THEN "connection" ELSE "drop")
    /\ UNCHANGED <<lsnAllowed, lsnCrashed>>
    /\ UNCHANGED notListenerVars

\* The accept loop of handleConnection ends: AcceptStream failed or timed
\* out, handleConnection returns and Start closes the connection.
acceptStreamFailed ==
    /\ ~lsnCrashed
    /\ lsnConn.state = "accepted"
    /\ lsnConn' = NoConn
    /\ UNCHANGED <<lsnAllowed, lsnLast, lsnMetrics, lsnCrashed>>
    /\ UNCHANGED notListenerVars

\* DoQListener.handleStream: one stream of an accepted connection.  The
\* stream is closed by the deferred Close on every way out.  a.Pack() on
\* the nil response of a resolver that dropped the query dereferences nil:
\* the goroutine panics and, with no recover, the process ends.  Pack and
\* Write are otherwise taken to succeed.
handleStream ==
    /\ ~lsnCrashed
    /\ lsnLast.n < MaxQueries
    /\ lsnConn.state = "accepted"
    /\ \E q \in StreamInputs, out \in ResolverOutcomes :
        LET m1 == Add1(lsnMetrics, "stream")
            unread == q.kind # "query"
            aborted == ~unread /\ hasKeepalive(q)
            resolved == ~unread /\ ~aborted
            a == IF ~resolved THEN Nil
                 ELSE IF out = "error" THEN servfail
                 ELSE IF out = "nil" THEN Nil
                 ELSE out
            m2 == IF q.kind = "readerr" THEN Add1(m1, "read")
                  ELSE IF q.kind = "garbage" THEN Add1(m1, "unpack")
                  ELSE Add1(m1, "query")
            m3 == IF aborted THEN Add1(m2, "keepalive") ELSE m2
            m4 == IF a # Nil THEN Add1(m3, "response") ELSE m3
        IN /\ lsnLast' = [n |-> lsnLast.n + 1, proto |-> "doq",
                          src |-> lsnConn.src,
                          input |-> q.kind, options |-> q.options,
                          resolved |-> resolved,
                          out |-> IF resolved THEN out ELSE "notcalled",
                          written |-> IF a = Nil THEN "none" ELSE a,
                          closed |-> TRUE]
           /\ lsnMetrics' = m4
           /\ lsnCrashed' = (resolved /\ out = "nil")
    /\ UNCHANGED <<lsnAllowed, lsnConn>>
    /\ UNCHANGED notListenerVars

InitListener ==
    /\ BuilderReturned
    /\ PanelNotBuilt
    /\ NodeIdle
    /\ RotateIdle
    /\ TrieEmpty
    /\ lsnAllowed \in AllowedNetLists
    /\ ListenerQuiet
    /\ CertIdle
    /\ ProcIdle
    /\ StopIdle
    /\ EcsIdle
    /\ RblIdle
    /\ DotIdle

NextListener ==
    \/ \E protocol \in Protocols : listenHandler(protocol)
    \/ handleConnection
    \/ acceptStreamFailed
    \/ handleStream

SpecListener == InitListener /\ [][NextListener]_vars

\* The step handled a query, a connection or a stream.
Handled == lsnLast'.n = lsnLast.n + 1

\* The source of the latest query or connection is outside a non-empty
\* allowed-nets list.
AclMiss == lsnLast.n > 0 /\ ~isAllowed(lsnAllowed, lsnLast.src)

\* C17: on every transport a query from a source outside a non-empty
\* allowed-nets list is answered with REFUSED, the acl error counter is
\* incremented and the resolver is not invoked; with an empty list every
\* source is allowed.  Violated by DoQ: handleConnection counts a drop and
\* returns, nothing is written and the acl counter stays.
C17_AclMissRefused ==
    /\ AclMiss => (lsnLast.written = "REFUSED" /\ ~lsnLast.resolved
                   /\ lsnMetrics.acl > 0)
    /\ Len(lsnAllowed) = 0 =>
        (lsnMetrics.acl = 0 /\ lsnLast.written # "REFUSED"
         /\ lsnConn.state # "rejected")

\* C18: when the resolver returns an error, the client gets SERVFAIL and
\* the resolve error counter is incremented.  Violated by DoQ: handleStream
\* answers SERVFAIL and counts nothing.
C18_ResolverErrorIsServfail ==
    [][(Handled /\ lsnLast'.out = "error") =>
        /\ lsnLast'.written = servfail
        /\ lsnMetrics'.resolve = lsnMetrics.resolve + 1]_vars

\* C19: when the resolver returns a nil response and no error, nothing is
\* written, the connection or stream is closed and the handler finishes
\* without a crash.  Violated by DoQ: handleStream packs the nil response.
C19_NilResponseDropsQuietly ==
    lsnLast.out = "nil" =>
        (lsnLast.written = "none" /\ lsnLast.closed /\ ~lsnCrashed)

\* C20: a DoQ stream whose query carries the edns-tcp-keepalive option is
\* aborted: the resolver is not invoked and nothing is written.
C20_KeepaliveAbortsStream ==
    (lsnLast.proto = "doq" /\ "EDNS0TCPKEEPALIVE" \in lsnLast.options) =>
        /\ ~lsnLast.resolved
        /\ lsnLast.written = "none"
        /\ lsnLast.closed
        /\ lsnMetrics.keepalive > 0

\* A stream with the keepalive option was handled on an accepted connection.
C20_Witness ==
    /\ lsnLast.proto = "doq" /\ "EDNS0TCPKEEPALIVE" \in lsnLast.options
    /\ lsnConn.state = "accepted"
    /\ lsnMetrics.keepalive = 1

-----------------------------------------------------------------------------
(***************************************************************************)
(* CertMonitor.  The five listener types carry the same CertMonitor body;  *)
(* what differs is the Lego field (NewDNSListener leaves it nil and the    *)
(* builder sets it for the other types only) and Stop (DoQListener.Start   *)
(* has a value receiver, so the ln it assigns is lost and Stop closes a    *)
(* nil listener).  The task is a task.Periodic: it calls Execute, and      *)
(* schedules the next call once Execute has returned nil; an error ends    *)
(* the task.  The listener is kept started by the goroutine of start().    *)
(***************************************************************************)

\* The CertMonitor calls of one behaviour.
MaxRuns == 2

\* The listener types with a CertMonitor task.
CertKinds == {"tcp", "udp", "dot", "dtls", "doq"}

\* The certificate modes for which the builder registers the task: every
\* mode but "" and "none".
CertModes == {"file", "dns", "http", "tls"}

\* s.Lego is nil: NewDNSListener does not set it and the tcp and udp cases
\* of the builder do not either.
LegoIsNil(kind) == kind \in {"tcp", "udp"}

\* The process is alive.
Alive == ~certTask.crashed

\* The goroutine of start(): l.Start() on a listener that is not serving
\* serves until the listener is stopped.
StarterStart ==
    /\ Alive
    /\ certL.starter = "sleep"
    /\ ~certL.serving
    /\ certL' = [certL EXCEPT !.serving = TRUE, !.starter = "serving"]
    /\ UNCHANGED <<certRun, certTask>>
    /\ UNCHANGED notCertVars

\* The task calls CertMonitor: switch s.Lego.CertMode.  A nil s.Lego panics;
\* a mode other than dns, http, tls returns nil at once.
CertTick ==
    /\ Alive
    /\ certTask.running
    /\ certRun.pc = "idle"
    /\ certRun.runs < MaxRuns
    /\ IF LegoIsNil(certL.kind)
       THEN /\ certTask' = [certTask EXCEPT !.crashed = TRUE]
            /\ certRun' = [certRun EXCEPT !.runs = @ + 1]
       ELSE /\ certRun' = [pc |-> IF certL.mode \in {"dns", "http", "tls"}
                                  THEN "new" ELSE "idle",
                           lego |-> FALSE, runs |-> certRun.runs + 1]
            /\ UNCHANGED certTask
    /\ UNCHANGED certL
    /\ UNCHANGED notCertVars

\* mylego.New(s.Lego): an error is printed, lego is then nil.
CertNew ==
    /\ Alive
    /\ certRun.pc = "new"
    /\ \E ok \in BOOLEAN : certRun' = [certRun EXCEPT !.pc = "renew", !.lego = ok]
    /\ UNCHANGED <<certL, certTask>>
    /\ UNCHANGED notCertVars

\* lego.RenewCert(): an error is printed.  On a nil lego the call either
\* panics or returns an error, depending on mylego.
CertRenew ==
    /\ Alive
    /\ certRun.pc = "renew"
    /\ \/ /\ certRun' = [certRun EXCEPT !.pc = "config"]
          /\ UNCHANGED certTask
       \/ /\ ~certRun.lego
          /\ certTask' = [certTask EXCEPT !.crashed = TRUE]
          /\ UNCHANGED certRun
    /\ UNCHANGED certL
    /\ UNCHANGED notCertVars

\* GetCertFile and TLSServerConfig / DTLSServerConfig: when the config
\* cannot be built CertMonitor returns the error, which ends the task.
CertConfig ==
    /\ Alive
    /\ certRun.pc = "config"
    /\ \E ok \in BOOLEAN :
        IF ok
        THEN /\ certRun' = [certRun EXCEPT !.pc = "swap"]
             /\ UNCHANGED certTask
        ELSE /\ certRun' = [certRun EXCEPT !.pc = "idle"]
             /\ certTask' = [certTask EXCEPT !.running = FALSE]
    /\ UNCHANGED certL
    /\ UNCHANGED notCertVars

\* s.TLSConfig = tlsConfig (s.opt.TLSConfig, s.opt.DTLSConfig).
CertSwap ==
    /\ Alive
    /\ certRun.pc = "swap"
    /\ certL' = [certL EXCEPT !.config = @ + 1]
    /\ certRun' = [certRun EXCEPT !.pc = "stop"]
    /\ UNCHANGED certTask
    /\ UNCHANGED notCertVars

\* DoQListener.Stop is s.ln.Close() on the nil ln.
CertStopPanics(kind) == kind = "doq"

\* s.Stop(): the listener stops serving and the Start call that was serving
\* returns; an error of Stop is printed.
CertStop ==
    /\ Alive
    /\ certRun.pc = "stop"
    /\ IF CertStopPanics(certL.kind)
       THEN /\ certTask' = [certTask EXCEPT !.crashed = TRUE]
            /\ UNCHANGED <<certL, certRun>>
       ELSE /\ certL' = [certL EXCEPT !.serving = FALSE, !.starter = "sleep"]
            /\ certRun' = [certRun EXCEPT !.pc = "start"]
            /\ UNCHANGED certTask
    /\ UNCHANGED notCertVars

\* s.Start(): on a listener that the goroutine of start() has started again
\* in the meantime it fails, the error is printed and CertMonitor returns
\* nil; otherwise the call serves and CertMonitor does not return.
CertStart ==
    /\ Alive
    /\ certRun.pc = "start"
    /\ IF certL.serving
       THEN /\ certRun' = [certRun EXCEPT !.pc = "idle"]
            /\ UNCHANGED certL
       ELSE /\ certRun' = [certRun EXCEPT !.pc = "serving"]
            /\ certL' = [certL EXCEPT !.serving = TRUE]
    /\ UNCHANGED certTask
    /\ UNCHANGED notCertVars

InitCert ==
    /\ BuilderReturned
    /\ PanelNotBuilt
    /\ NodeIdle
    /\ RotateIdle
    /\ TrieEmpty
    /\ ListenerIdle
    /\ \E kind \in CertKinds, mode \in CertModes :
        certL = [kind |-> kind, mode |-> mode, serving |-> FALSE,
                 config |-> 0, starter |-> "sleep"]
    /\ CertQuiet
    /\ ProcIdle
    /\ StopIdle
    /\ EcsIdle
    /\ RblIdle
    /\ DotIdle

NextCert ==
    \/ StarterStart
    \/ CertTick
    \/ CertNew
    \/ CertRenew
    \/ CertConfig
    \/ CertSwap
    \/ CertStop
    \/ CertStart

SpecCert == InitCert /\ [][NextCert]_vars

\* C21: the TLS/DTLS configuration of a listener is written only while the
\* listener is stopped: a run stops the listener, then swaps the
\* configuration, then starts the listener.  Violated: every CertMonitor
\* assigns the configuration first and calls Stop after it.
C21_ConfigSwappedOnlyWhileStopped ==
    [][certL'.config # certL.config => ~certL.serving]_vars

\* C22: no failure inside a cert-monitor run ends the periodic task or
\* crashes the process, for every listener type with a registered task, tcp
\* and udp included.  Violated: a nil Lego panics, a config that cannot be
\* built is returned as an error, Stop on a DoQ listener panics.
C22_RunNeverEndsTaskNorCrashes ==
    certTask.running /\ ~certTask.crashed

-----------------------------------------------------------------------------
(***************************************************************************)
(* The process.  start() of cmd/routedns loads the configuration, calls    *)
(* GetPanelManager, starts one goroutine per listener and waits for a      *)
(* signal.  GetPanelManager (package api) returns the listeners, the       *)
(* cert-monitor tasks and the close hooks in the Manager; start() uses     *)
(* manager.Listeners only, and the onClose it walks on shutdown is the     *)
(* variable of package main, to which nothing is ever appended.            *)
(***************************************************************************)

\* Listeners and resolvers of the configurations, and the groups whose
\* backend registers a close hook (a cache with an in-memory backend).
ProcListeners == {"l1", "l2"}
ProcResolvers == {"r1"}
ProcCaches == {"cache1", "cache2"}

\* Lego.CertMode values of a listener or resolver.
ProcCertModes == {"", "none", "dns"}

\* The configurations: a certificate mode per listener (at least one
\* listener) and per resolver, and the caches.
ProcConfigs ==
    {[listeners |-> lm, resolvers |-> rm, caches |-> cs] :
        lm \in UNION {[ls -> ProcCertModes] : ls \in SUBSET ProcListeners \ {{}}},
        rm \in [ProcResolvers -> ProcCertModes],
        cs \in SUBSET ProcCaches}

\* The test before every tasks = append(tasks, periodicTask{...}).
NeedsCertMonitor(mode) == mode # "" /\ mode # "none"

\* The Manager GetPanelManager returns for a configuration: the tasks are
\* task.Periodic values on which Start has not been called.
ManagerOf(c) ==
    [Listeners |-> DOMAIN c.listeners,
     Tasks |-> {[of |-> x, running |-> FALSE] :
                    x \in {l \in DOMAIN c.listeners : NeedsCertMonitor(c.listeners[l])}
                        \cup {r \in DOMAIN c.resolvers : NeedsCertMonitor(c.resolvers[r])}},
     OnClose |-> c.caches]

\* The onClose of package main, which start() walks on shutdown.
MainOnClose == {}

\* api.LoadConfig and config.GetPanelManager: an error is returned by
\* start() and main exits with 1.
ProcBuild ==
    /\ procPc = "build"
    /\ \/ \E c \in ProcConfigs :
            /\ procMgr' = ManagerOf(c)
            /\ procPc' = "listeners"
            /\ UNCHANGED procRun
       \/ /\ procPc' = "exited"
          /\ procRun' = [procRun EXCEPT !.exit = 1]
          /\ UNCHANGED procMgr
    /\ UNCHANGED notProcVars

\* for _, l := range manager.Listeners { go func ... l.Start() ... }
ProcStartListeners ==
    /\ procPc = "listeners"
    /\ procRun' = [procRun EXCEPT !.started = procMgr.Listeners]
    /\ procPc' = "waiting"
    /\ UNCHANGED procMgr
    /\ UNCHANGED notProcVars

\* <-sig, then every f of onClose is called, then start() returns nil and
\* main ends: exit code 0.
ProcSignal ==
    /\ procPc = "waiting"
    /\ \E sig \in {"SIGINT", "SIGTERM", "SIGHUP"} :
        procRun' = [procRun EXCEPT !.hooksRun = @ \cup MainOnClose, !.exit = 0]
    /\ procPc' = "exited"
    /\ UNCHANGED procMgr
    /\ UNCHANGED notProcVars

InitProc ==
    /\ BuilderReturned
    /\ PanelNotBuilt
    /\ NodeIdle
    /\ RotateIdle
    /\ TrieEmpty
    /\ ListenerIdle
    /\ CertIdle
    /\ ProcIdle
    /\ StopIdle
    /\ EcsIdle
    /\ RblIdle
    /\ DotIdle

NextProc ==
    \/ ProcBuild
    \/ ProcStartListeners
    \/ ProcSignal

SpecProc == InitProc /\ [][NextProc]_vars

\* C23: every listener and resolver with a certificate mode other than
\* empty or none has a cert-monitor task registered at build time, and once
\* the listeners are started the task is executed on its interval.
\* Violated: nothing ever calls Start on a registered task.
C23_CertTasksRegisteredAndRunning ==
    procPc = "waiting" =>
        \A t \in procMgr.Tasks : t.running

\* C28: on SIGINT, SIGTERM or SIGHUP every close hook registered while the
\* pipeline was built is run and every listener is stopped before the
\* process exits with 0; a build failure exits with a non-zero code.
\* Violated: the hooks of the Manager are not run and no listener is
\* stopped.
C28_CleanShutdown ==
    /\ (procPc = "exited" /\ procRun.exit = 0) =>
        /\ procRun.hooksRun = procMgr.OnClose
        /\ procRun.stopped = procMgr.Listeners
    /\ (procPc = "exited" /\ procMgr = NoManager) => procRun.exit # 0

-----------------------------------------------------------------------------
(***************************************************************************)
(* Start and Stop of a listener.  The udp, tcp, dot, dtls and admin        *)
(* listeners hold their server behind a pointer, so the socket Start opens *)
(* is the one Stop shuts down, and the serve call of Start returns once    *)
(* the socket is closed.  DoQListener.Start has a value receiver: the      *)
(* quic.Listener it opens is stored in the copy, the ln field of the       *)
(* listener stays nil, and Stop is s.ln.Close() on that nil pointer.       *)
(***************************************************************************)

\* The connections accepted in one behaviour.
MaxConns == 4

\* The listener types with a Start and a Stop in the source.
StopKinds == {"udp", "tcp", "dot", "dtls", "doq", "admin"}

\* Start stores the socket it opens where Stop finds it.
StoresSocket(kind) == kind # "doq"

\* Start is called: the socket is open and the call serves.
StartServe ==
    /\ stopPc.start = "idle"
    /\ stopL' = [stopL EXCEPT !.sock = "open",
                              !.ln = IF StoresSocket(stopL.kind) THEN "open" ELSE "nil"]
    /\ stopPc' = [stopPc EXCEPT !.start = "serving"]
    /\ UNCHANGED stopAccepted
    /\ UNCHANGED notStopVars

\* The serving Start call accepts a connection on the open socket.
StartAccept ==
    /\ stopPc.start = "serving"
    /\ stopPc.stop # "panicked"
    /\ stopL.sock = "open"
    /\ stopAccepted < MaxConns
    /\ stopAccepted' = stopAccepted + 1
    /\ UNCHANGED <<stopL, stopPc>>
    /\ UNCHANGED notStopVars

\* Stop is called while Start is serving.
StopCall ==
    /\ stopPc.start = "serving"
    /\ stopPc.stop = "idle"
    /\ stopPc' = [stopPc EXCEPT !.stop = "called"]
    /\ UNCHANGED <<stopL, stopAccepted>>
    /\ UNCHANGED notStopVars

\* The body of Stop: Shutdown / Close on the stored socket; on a nil ln the
\* call panics.
StopShutdown ==
    /\ stopPc.stop = "called"
    /\ IF stopL.ln = "nil"
       THEN /\ stopPc' = [stopPc EXCEPT !.stop = "panicked"]
            /\ UNCHANGED stopL
       ELSE /\ stopPc' = [stopPc EXCEPT !.stop = "done"]
            /\ stopL' = [stopL EXCEPT !.sock = "closed", !.ln = "closed"]
    /\ UNCHANGED stopAccepted
    /\ UNCHANGED notStopVars

\* The serve call of Start returns once its socket is closed.
StartReturn ==
    /\ stopPc.start = "serving"
    /\ stopL.sock = "closed"
    /\ stopPc' = [stopPc EXCEPT !.start = "returned"]
    /\ UNCHANGED <<stopL, stopAccepted>>
    /\ UNCHANGED notStopVars

InitStop ==
    /\ BuilderReturned
    /\ PanelNotBuilt
    /\ NodeIdle
    /\ RotateIdle
    /\ TrieEmpty
    /\ ListenerIdle
    /\ CertIdle
    /\ ProcIdle
    /\ \E kind \in StopKinds : stopL = [kind |-> kind, ln |-> "nil", sock |-> "none"]
    /\ StopFresh
    /\ EcsIdle
    /\ RblIdle
    /\ DotIdle

NextStop ==
    \/ StartServe
    \/ StartAccept
    \/ StopCall
    \/ StopShutdown
    \/ StartReturn

SpecStop == InitStop /\ [][NextStop]_vars

\* Stop, once called, runs, and a Start call that can return does.
SpecStopLive ==
    SpecStop /\ WF_vars(StopShutdown) /\ WF_vars(StartReturn)

\* C24: on every transport, after stop() is called on a listener whose
\* start() is blocked serving, stop() completes, the blocked start() call
\* returns, and the listener accepts no further connections.  Violated by
\* the DoQ listener, whose Stop panics on the nil ln.
C24_StopEndsStart ==
    /\ (stopPc.stop = "called") ~>
            (stopPc.stop = "done" /\ stopPc.start = "returned")
    /\ [][stopPc.stop = "done" => stopAccepted' = stopAccepted]_vars

-----------------------------------------------------------------------------
(***************************************************************************)
(* ECSModifier and DoTClient.  A query is its question, whether it has an  *)
(* OPT record, and the options of that record in order.  An address is its *)
(* family and its bits; the bit lengths are scaled down.  The caller and   *)
(* the resolver share the *dns.Msg: what a resolver changes in q without   *)
(* copying is changed for the caller.  Neither resolver keeps anything     *)
(* from one call to the next, so a behaviour is one call.                  *)
(***************************************************************************)

\* The bits of an IPv4 and of an IPv6 address in the model.
EcsV4Bits == 2
EcsV6Bits == 3

\* A nil net.IP.
NilAddr == [fam |-> 0, bits |-> <<>>]

\* The addresses, by family.
EcsAddrs ==
    {[fam |-> 4, bits |-> b] : b \in [1..EcsV4Bits -> {0, 1}]}
        \cup {[fam |-> 6, bits |-> b] : b \in [1..EcsV6Bits -> {0, 1}]}

\* ClientInfo.SourceIP: an address, or nil.
EcsSources == EcsAddrs \cup {NilAddr}

\* The addresses an ecs-modifier is configured with: none, an IPv4 and an
\* IPv6 address.
EcsConfigured ==
    {NilAddr, [fam |-> 4, bits |-> [i \in 1..EcsV4Bits |-> 1]],
          [fam |-> 6, bits |-> [i \in 1..EcsV6Bits |-> 1]]}

\* dns.EDNS0_SUBNET
SubnetOpt(family, netmask, address) ==
    [code |-> "EDNS0SUBNET", family |-> family, netmask |-> netmask,
     address |-> address]

\* Options that are not ECS options.
OtherOpt(code) == [code |-> code, family |-> 0, netmask |-> 0, address |-> NilAddr]

\* opt.(*dns.EDNS0_SUBNET)
IsSubnet(opt) == opt.code = "EDNS0SUBNET"

\* The ECS options queries arrive with.
Ecs4In == SubnetOpt(1, EcsV4Bits, [fam |-> 4, bits |-> [i \in 1..EcsV4Bits |-> 1]])
Ecs6In == SubnetOpt(2, EcsV6Bits, [fam |-> 6, bits |-> [i \in 1..EcsV6Bits |-> 1]])

\* The option lists queries arrive with.
EcsOptionLists ==
    {<<>>, <<OtherOpt("EDNS0PADDING")>>, <<Ecs4In>>,
     <<Ecs4In, OtherOpt("EDNS0COOKIE"), Ecs6In>>,
     <<OtherOpt("EDNS0COOKIE"), OtherOpt("EDNS0PADDING")>>}

\* The queries Resolve is called with.
EcsQueries ==
    {[question |-> qq, edns0 |-> TRUE, options |-> o] :
        qq \in BOOLEAN, o \in EcsOptionLists}
    \cup {[question |-> qq, edns0 |-> FALSE, options |-> <<>>] : qq \in BOOLEAN}

\* ip.Mask(net.CIDRMask(n, len)): the first n bits kept, the others zero;
\* nil stays nil.
Mask(ip, n) ==
    IF ip = NilAddr THEN NilAddr
    ELSE [ip EXCEPT !.bits = [i \in DOMAIN ip.bits |-> IF i <= n THEN ip.bits[i] ELSE 0]]

\* Mutant of ECSModifierDelete: the ECS options stay.
ECSModifierDelete_KeepsAll(q) == q

\* ECSModifierDelete: without an OPT record nothing, otherwise the options
\* that are not ECS options, in their order.
ECSModifierDelete(q) ==
    IF ~q.edns0 THEN q
    ELSE [q EXCEPT !.options = SelectSeq(q.options, LAMBDA o : ~IsSubnet(o))]

\* ECSModifierAdd(addr, prefix4, prefix6): drop the ECS options, take the
\* configured address or else the client's, choose family and mask by
\* To4, make sure there is an OPT record, append the new ECS option.
ECSModifierAdd(addr, prefix4, prefix6, q, src) ==
    LET q1 == ECSModifierDelete(q)
        sourceIP == IF addr = NilAddr THEN src ELSE addr
        is4 == sourceIP # NilAddr /\ sourceIP.fam = 4
        ecs == IF is4 THEN SubnetOpt(1, prefix4, Mask(sourceIP, prefix4))
               ELSE SubnetOpt(2, prefix6, Mask(sourceIP, prefix6))
    IN [q1 EXCEPT !.edns0 = TRUE, !.options = Append(q1.options, ecs)]

\* ECSModifierPrivacy(prefix4, prefix6): every ECS option is masked in
\* place.
ECSModifierPrivacy(prefix4, prefix6, q) ==
    IF ~q.edns0 THEN q
    ELSE [q EXCEPT !.options =
            [i \in DOMAIN q.options |->
                LET o == q.options[i]
                IN IF ~IsSubnet(o) THEN o
                   ELSE IF o.family = 1
                        THEN SubnetOpt(1, prefix4, Mask(o.address, prefix4))
                        ELSE SubnetOpt(2, prefix6, Mask(o.address, prefix6))]]

\* r.modifier(r.id, q, ci) for the operation of the group; the operation ""
\* leaves the modifier nil.
Modify(c, q, src) ==
    CASE c.op = "add" -> ECSModifierAdd(c.addr, c.prefix4, c.prefix6, q, src)
      [] c.op = "delete" -> ECSModifierDelete(q)
      [] c.op = "privacy" -> ECSModifierPrivacy(c.prefix4, c.prefix6, q)
      [] OTHER -> q

\* ECSModifier.Resolve: a query without question is an error; otherwise
\* the modifier works on q itself and q is passed on.
ECSResolve ==
    \E q \in EcsQueries, src \in EcsSources :
        /\ ecsLast = NoCall
        /\ ecsLast' =
            IF ~q.question
            THEN [resolver |-> "ecs", src |-> src, before |-> q, after |-> q,
                  forwarded |-> PlainQuery, padded |-> FALSE, called |-> FALSE]
            ELSE [resolver |-> "ecs", src |-> src, before |-> q,
                  after |-> Modify(ecsCfg, q, src),
                  forwarded |-> Modify(ecsCfg, q, src),
                  padded |-> FALSE, called |-> TRUE]
        /\ UNCHANGED ecsCfg
        /\ UNCHANGED notEcsVars

\* DoTClient.Resolve: q = q.Copy(), the copy is padded and sent.
DoTResolve ==
    \E q \in EcsQueries, src \in EcsSources :
        /\ ecsLast = NoCall
        /\ ecsLast' = [resolver |-> "dot", src |-> src, before |-> q,
                       after |-> q, forwarded |-> q, padded |-> TRUE,
                       called |-> TRUE]
        /\ UNCHANGED ecsCfg
        /\ UNCHANGED notEcsVars

InitECS ==
    /\ BuilderReturned
    /\ PanelNotBuilt
    /\ NodeIdle
    /\ RotateIdle
    /\ TrieEmpty
    /\ ListenerIdle
    /\ CertIdle
    /\ ProcIdle
    /\ StopIdle
    /\ RblIdle
    /\ DotIdle
    /\ \E op \in {"", "add", "delete", "privacy"}, addr \in EcsConfigured,
          p4 \in 0..EcsV4Bits, p6 \in 0..EcsV6Bits :
        ecsCfg = [op |-> op, addr |-> addr, prefix4 |-> p4, prefix6 |-> p6]
    /\ ecsLast = NoCall

NextECS ==
    \/ ECSResolve
    \/ DoTResolve

SpecECS == InitECS /\ [][NextECS]_vars

\* C25: after ECSModifier.Resolve or DoTClient.Resolve returns, the query of
\* the caller is what it was before the call.  Violated by ECSModifier,
\* whose modifier works on the caller's message.
C25_CallerQueryUnchanged ==
    ecsLast.after = ecsLast.before

\* The address the add modifier uses for the latest call.
EcsEffective == IF ecsCfg.addr = NilAddr THEN ecsLast.src ELSE ecsCfg.addr

\* The latest call went through the add modifier with an address.
EcsAdded ==
    /\ ecsLast.resolver = "ecs" /\ ecsLast.called
    /\ ecsCfg.op = "add"
    /\ EcsEffective # NilAddr

\* C26: after the add modifier the forwarded query has an OPT record with
\* exactly one ECS option, whatever it carried before: family 1 and
\* netmask prefix4 for an IPv4 address, family 2 and prefix6 for IPv6, the
\* address being the configured one (or else the client's) cut to that
\* prefix; the other options are kept.
C26_ExactlyOneEcsOption ==
    EcsAdded =>
        LET f == ecsLast.forwarded
            ecs == SelectSeq(f.options, IsSubnet)
            a == EcsEffective
            n == IF a.fam = 4 THEN ecsCfg.prefix4 ELSE ecsCfg.prefix6
        IN /\ f.edns0
           /\ Len(ecs) = 1
           /\ ecs[1].family = (IF a.fam = 4 THEN 1 ELSE 2)
           /\ ecs[1].netmask = n
           /\ ecs[1].address.fam = a.fam
           /\ \A i \in DOMAIN a.bits :
                ecs[1].address.bits[i] = (IF i <= n THEN a.bits[i] ELSE 0)
           /\ SelectSeq(f.options, LAMBDA o : ~IsSubnet(o))
                = SelectSeq(ecsLast.before.options, LAMBDA o : ~IsSubnet(o))

\* A query with two ECS options and a cookie went through the add modifier
\* with the address of an IPv4 client and a prefix shorter than the address.
C26_Witness ==
    /\ EcsAdded
    /\ ecsCfg.addr = NilAddr /\ ecsLast.src.fam = 4
    /\ ecsCfg.prefix4 = 1 /\ ecsLast.src.bits[EcsV4Bits] = 1
    /\ Len(ecsLast.before.options) = 3

-----------------------------------------------------------------------------
(***************************************************************************)
(* The builder's attach step and what the listeners can name               *)
(***************************************************************************)

\* How often id occurs in the list s.
Occurrences(s, id) == Cardinality({i \in DOMAIN s : s[i] = id})

\* The attach step (lines 523-530) is behind the builder.
Attached == pc \in {"listeners", "done"} \/ (pc = "failed" /\ err = "listener")

\* C29: once the builder of a configuration with blocklist-panel groups is
\* past the attach step, every blocklist-panel is in the panel-rotate's
\* PanelResolvers list exactly once and none of them is in the id->Resolver
\* map; a build whose listener names a blocklist-panel does not succeed.
C29_PanelsAttachedOnceAndUnmapped ==
    (Attached /\ Pgm(cfg) # {}) =>
        /\ Cardinality(Pm(cfg)) = 1
        /\ \A id \in Pgm(cfg) : Occurrences(panelResolvers, id) = 1
        /\ Range(panelResolvers) = Pgm(cfg)
        /\ DOMAIN resolvers \cap Pgm(cfg) = {}
        /\ cfg.ListenerResolver \in Pgm(cfg) => pc # "done"

\* C29 witness: a build with two blocklist-panels and one panel-rotate has
\* succeeded.
C29_Witness ==
    pc = "done" /\ Cardinality(Pgm(cfg)) = 2 /\ Len(panelResolvers) = 2

\* C29 witness: a build whose listener names a blocklist-panel was rejected
\* at the listener.
C29_WitnessListenerRejected ==
    pc = "failed" /\ err = "listener" /\ cfg.ListenerResolver \in Pgm(cfg)

-----------------------------------------------------------------------------
(***************************************************************************)
(* The node graph after the builder has returned                           *)
(***************************************************************************)

\* Configurations with two blocklist-panel groups and a panel-rotate group.
PanelConfigs ==
    {c \in Configs : /\ Cardinality(Pgm(c)) = 2 /\ Cardinality(Pm(c)) = 1
                     /\ WellFormed(c) /\ NoRepeatedReference(c) /\ ConstructorsAccept(c)}

\* The resolvers NewPanellist has wired into the blocklist-panel whose
\* refresh loop is followed: an allowlist-resolver only.
WiredResolvers ==
    [AllowListResolver |-> "allowlist-resolver", BlockListResolver |-> Nil,
     IpAllowListResolver |-> Nil]

\* A tick of the refresh loop that NewPanellist started (line 425), at any
\* time after the builder has returned. The first tick comes one refresh
\* interval (minutes) after construction; ticks during the build are left out.
PanelTick ==
    /\ pc = "done"
    /\ RefreshTick

InitFrozen ==
    /\ cfg \in PanelConfigs
    /\ pc = "start"
    /\ err = "none"
    /\ resolvers = EmptyMap
    /\ instCount = [id \in AllIds |-> 0]
    /\ graph = [V |-> {}, E |-> {}]
    /\ leaves = {}
    /\ panelResolvers = <<>>
    /\ globals = [DefaultResolver |-> "system", XRAY_LOCATION_ASSET |-> "unset"]
    /\ loaderOpt = [NodeInfo |-> NodeInfo({}, {}, "", <<>>), UserList |-> {}]
    /\ panelDB = PanelLoaderGet(loaderOpt, NoHosts)
    /\ panelOpt = WiredResolvers
    /\ tick = NoTick
    /\ last = NoQuery
    /\ NodeIdle
    /\ RotateIdle
    /\ TrieEmpty
    /\ ListenerIdle
    /\ CertIdle
    /\ ProcIdle
    /\ StopIdle
    /\ EcsIdle
    /\ RblIdle
    /\ DotIdle

NextFrozen ==
    \/ NextBuild
    \/ PanelTick

SpecFrozen == InitFrozen /\ [][NextFrozen]_vars

\* The children of every node: the instances in the id->Resolver map with
\* their child lists, the PanelResolvers list of the panel-rotate, and the
\* resolvers wired into the Panellist.
Children == <<resolvers, panelResolvers, panelOpt>>

-----------------------------------------------------------------------------
(***************************************************************************)
(* ipBlocklistTrie.remove                                                  *)
(***************************************************************************)

\* n.IP of a parsed network: the prefix bits followed by zero bits, AddrBits
\* long (net.ParseCIDR masks the address).
NetIP(n) == [i \in 1..AddrBits |-> IF i <= Len(n) THEN n[i] ELSE 0]

\* The nodes a node's left and right pointers lead to.
TrieChildren(t, p) == {q \in t.nodes : Len(q) = Len(p) + 1 /\ IsPrefixOf(p, q)}

\* removeNode returns nil: the parent's pointer to the node is cleared.
TrieDrop(t, p) == [nodes |-> t.nodes \ {p}, leaf |-> t.leaf \ {p}]

\* removeNode, lines 24-57, for the node on the path of ip at depth
\* bitIndex. size is len(n.IP)*8, the length of the address.
RECURSIVE removeNode(_, _, _)
removeNode(t, ip, bitIndex) ==
    LET p == Prefix(ip, bitIndex) IN
    IF p \notin t.nodes THEN t
    ELSE IF bitIndex = AddrBits
    THEN IF p \in t.leaf
         THEN IF TrieChildren(t, p) = {} THEN TrieDrop(t, p)
              ELSE [t EXCEPT !.leaf = @ \ {p}]
         ELSE t
    ELSE LET t1 == removeNode(t, ip, bitIndex + 1) IN
         IF p \in t1.leaf /\ TrieChildren(t1, p) = {} THEN TrieDrop(t1, p) ELSE t1

\* remove, lines 20-22.
TrieRemove(t, n) == removeNode(t, NetIP(n), 0)

\* One call of remove, with a network that was added or one that was not.
\* trieAdded keeps the networks that were added and not removed since.
RemoveNet ==
    /\ \E n \in TrieNets :
        /\ trie' = TrieRemove(trie, n)
        /\ trieAdded' = trieAdded \ {n}
    /\ trieLast' = NoLookup
    /\ UNCHANGED notTrieVars

NextTrieRemove ==
    \/ AddNet
    \/ RemoveNet
    \/ LookupIP

SpecTrieRemove == InitTrie /\ [][NextTrieRemove]_vars

\* The step is a call of remove(n).
RemoveStep(n) ==
    /\ trie' = TrieRemove(trie, n)
    /\ trieAdded' = trieAdded \ {n}
    /\ trieLast' = NoLookup

\* C30: after remove(n), hasIP(x) reports a match if and only if x is
\* covered by a network that was added and not removed, whether n was added
\* or not and whether or not n lies inside a shorter added network.
C30_RemoveExactlyThatNetwork ==
    [][\A n \in TrieNets :
          RemoveStep(n) =>
              \A ip \in TrieIPs :
                  HasIP(trie', ip).ok <=> (\E m \in trieAdded \ {n} : IsPrefixOf(m, ip))]_vars

-----------------------------------------------------------------------------
(***************************************************************************)
(* ResponseBlocklistIP.Resolve.  The group keeps no state between calls    *)
(* but its options and the DB, so one call is one step and one behaviour   *)
(* holds one call.  The upstream resolver and the DB are the environment.  *)
(***************************************************************************)

\* Longest answer section of an upstream response in the enumerated inputs.
MaxRRs == 2

\* The addresses on the blocklist: BlocklistDB.Match(ip) is true for these.
RblListed == {"192.0.2.1"}

\* The resource records of a response: an A record on the list, an AAAA
\* record not on it, and a record that carries no address.
RblRecords ==
    {[t |-> "A", ip |-> "192.0.2.1"], [t |-> "AAAA", ip |-> "2001:db8::1"],
     [t |-> "CNAME", ip |-> ""]}

RblAnswers == UNION {[1..n -> RblRecords] : n \in 0..MaxRRs}
RblSections == UNION {[1..n -> RblRecords] : n \in 0..1}

NoSections == [Rcode |-> "", Answer |-> <<>>, Ns |-> <<>>, Extra |-> <<>>]

\* What r.resolver.Resolve may return: an error, a nil message without
\* error, or a message.
RblUpstream ==
    {[kind |-> k] @@ NoSections : k \in {"error", "nil"}}
    \cup {[kind |-> "msg", Rcode |-> rc, Answer |-> an, Ns |-> ns, Extra |-> ex] :
            rc \in {"NOERROR", "SERVFAIL"}, an \in RblAnswers,
            ns \in RblSections, ex \in RblSections}

RblOptions ==
    {[Filter |-> f, Inverted |-> i, BlocklistResolver |-> b] :
        f \in BOOLEAN, i \in BOOLEAN, b \in BOOLEAN}

\* The test of lines 187 and 231: an A or AAAA record whose Match result
\* differs from Inverted.
RblOffending(opt, rr) ==
    rr.t \in {"A", "AAAA"} /\ ((rr.ip \in RblListed) # opt.Inverted)

\* The end of both paths: the query goes to the blocklist-resolver if there
\* is one, else the reply is nxdomain(query).
RblBlocked(opt) ==
    [kind |-> IF opt.BlocklistResolver THEN "forward" ELSE "nxdomain"] @@ NoSections

\* Mutant of filterRR: Inverted is not looked at.
filterRR_IgnoresInverted(opt, rrs) ==
    SelectSeq(rrs, LAMBDA rr : ~(rr.t \in {"A", "AAAA"} /\ rr.ip \in RblListed))

\* filterRR, lines 218-238: the records that are not offending, in order.
filterRR(opt, rrs) == SelectSeq(rrs, LAMBDA rr : ~RblOffending(opt, rr))

\* blockIfMatch, lines 175-199.
blockIfMatch(opt, answer) ==
    IF \E i \in DOMAIN (answer.Answer \o answer.Ns \o answer.Extra) :
           RblOffending(opt, (answer.Answer \o answer.Ns \o answer.Extra)[i])
    THEN RblBlocked(opt)
    ELSE answer

\* filterMatch, lines 201-216.
filterMatch(opt, answer) ==
    IF filterRR(opt, answer.Answer) = <<>>
    THEN RblBlocked(opt)
    ELSE [answer EXCEPT !.Answer = filterRR(opt, answer.Answer),
                        !.Ns = filterRR(opt, answer.Ns),
                        !.Extra = filterRR(opt, answer.Extra)]

\* Resolve, lines 135-147.
RblResolve(opt, up) ==
    IF up.kind # "msg" THEN up
    ELSE IF up.Rcode # "NOERROR" THEN up
    ELSE IF opt.Filter THEN filterMatch(opt, up)
    ELSE blockIfMatch(opt, up)

\* One call of Resolve.
RblCall ==
    /\ ~rblLast.called
    /\ \E up \in RblUpstream :
        rblLast' = [called |-> TRUE, up |-> up, out |-> RblResolve(rblOpt, up)]
    /\ UNCHANGED rblOpt
    /\ UNCHANGED notRblVars

InitRbl ==
    /\ BuilderReturned
    /\ PanelNotBuilt
    /\ NodeIdle
    /\ RotateIdle
    /\ TrieEmpty
    /\ ListenerIdle
    /\ CertIdle
    /\ ProcIdle
    /\ StopIdle
    /\ EcsIdle
    /\ DotIdle
    /\ rblOpt \in RblOptions
    /\ rblLast = [called |-> FALSE, up |-> [kind |-> "nil"] @@ NoSections,
                  out |-> [kind |-> "nil"] @@ NoSections]

NextRbl == RblCall

SpecRbl == InitRbl /\ [][NextRbl]_vars

\* The records of a section that are offending under the options.
RblOffenders(opt, rrs) == {i \in DOMAIN rrs : RblOffending(opt, rrs[i])}

\* A successful upstream response.
RblSuccess(up) == up.kind = "msg" /\ up.Rcode = "NOERROR"

\* The records of a section that are not offending, in their order, written
\* without the code's loop.
RECURSIVE RblKept(_, _)
RblKept(opt, rrs) ==
    IF rrs = <<>> THEN <<>>
    ELSE IF RblOffending(opt, Head(rrs)) THEN RblKept(opt, Tail(rrs))
    ELSE <<Head(rrs)>> \o RblKept(opt, Tail(rrs))

\* C31: errors, nil responses and non-success Rcodes are passed through.
\* For a successful response, without Filter one offending record in any
\* section gives NXDOMAIN or the forward and otherwise the response is
\* returned as it is; with Filter the offending records, and only those, are
\* removed from the three sections, and NXDOMAIN or the forward is the
\* result exactly when no answer record remains.
C31_BlockOrFilterOffending ==
    rblLast.called =>
        LET up == rblLast.up
            out == rblLast.out
            all == up.Answer \o up.Ns \o up.Extra
        IN /\ ~RblSuccess(up) => out = up
           /\ (RblSuccess(up) /\ ~rblOpt.Filter) =>
                  IF RblOffenders(rblOpt, all) # {} THEN out = RblBlocked(rblOpt)
                  ELSE out = up
           /\ (RblSuccess(up) /\ rblOpt.Filter) =>
                  IF RblKept(rblOpt, up.Answer) = <<>> THEN out = RblBlocked(rblOpt)
                  ELSE /\ out.kind = "msg" /\ out.Rcode = up.Rcode
                       /\ out.Answer = RblKept(rblOpt, up.Answer)
                       /\ out.Ns = RblKept(rblOpt, up.Ns)
                       /\ out.Extra = RblKept(rblOpt, up.Extra)

\* C31 witness: an inverted filter removed the unlisted AAAA record from
\* the answer and from the additional section and kept the listed A record.
C31_Witness ==
    /\ rblLast.called /\ rblOpt.Filter /\ rblOpt.Inverted
    /\ RblSuccess(rblLast.up)
    /\ Len(rblLast.up.Answer) = 2 /\ Len(rblLast.out.Answer) = 1
    /\ Len(rblLast.up.Extra) = 1 /\ rblLast.out.Extra = <<>>
    /\ rblLast.out.kind = "msg"

\* C31 witness: without Filter, an offending record in the authority
\* section alone sent the query to the blocklist-resolver.
C31_WitnessForward ==
    /\ rblLast.called /\ ~rblOpt.Filter /\ rblOpt.BlocklistResolver
    /\ RblSuccess(rblLast.up)
    /\ RblOffenders(rblOpt, rblLast.up.Answer) = {}
    /\ RblOffenders(rblOpt, rblLast.up.Ns) # {}
    /\ rblLast.out.kind = "forward"

\* C39: in Filter mode, a successful response without an offending record
\* in any section is returned unchanged, also when its answer section is
\* empty.
C39_FilterKeepsCleanResponse ==
    (rblLast.called /\ rblOpt.Filter /\ RblSuccess(rblLast.up)
       /\ RblOffenders(rblOpt, rblLast.up.Answer \o rblLast.up.Ns \o rblLast.up.Extra) = {})
        => rblLast.out = rblLast.up

-----------------------------------------------------------------------------
(***************************************************************************)
(* The SOCKS5 dialer of a Panellist across refresh ticks                   *)
(***************************************************************************)

\* The dialer that belongs to a SOCKS5 configuration: none without an
\* address.
DialerOf(nodeInfo) ==
    IF nodeInfo.Socks5Address # "" THEN nodeInfo.Socks5Address ELSE Nil

\* C32: a query forwarded after a refresh tick that committed a fetched
\* node-info is handed the dialer of the committed SOCKS5 configuration: the
\* new dialer when there is an address, none when the address is gone.
C32_DialerFollowsNodeInfo ==
    (last.asked /\ last.res.kind = "forward"
       /\ tick.node = "ok" /\ tick.users \in {"ok", "not-modified"})
        => last.res.dialer = DialerOf(loaderOpt.NodeInfo)

-----------------------------------------------------------------------------
(***************************************************************************)
(* DoTClient.CertMonitor and DoTClient.Resolve.  A TLS configuration is    *)
(* named by the number of the certificate renewal it was built from: 0 is  *)
(* the configuration the client was constructed with.  mylego, the         *)
(* certificate files and the upstream server are the environment; the      *)
(* runs modelled here are the successful ones.                             *)
(***************************************************************************)

\* The cert modes for which the builder registers the resolver's
\* CertMonitor as a task (CertMode neither "" nor "none").
DotModes == {"file", "dns", "http", "tls"}

\* The cert-monitor runs of one behaviour.
MaxRenewals == 3

DotClients ==
    {[mode |-> m, socks |-> s, optTLS |-> 0, pipeTLS |-> 0, runs |-> 0] :
        m \in DotModes, s \in BOOLEAN}

\* CertMonitor, lines 361-386, without an error: the renewed configuration
\* is stored in s.opt.TLSConfig and a new client is built from it; the
\* assignment s = nResolver changes the method's own copy of the pointer,
\* so the client of the pipeline stays the one built at construction.
DoTCertMonitorRun(c) ==
    IF c.mode \in {"dns", "http", "tls"}
    THEN [c EXCEPT !.optTLS = c.runs + 1, !.runs = @ + 1]
    ELSE [c EXCEPT !.runs = @ + 1]

\* Resolve, lines 421-440: the TLS configuration of the connection the
\* query goes over. With a panel SOCKS dialer a client is built from d.opt
\* for the query, otherwise the client's own pipeline is used.
DoTQueryTLS(c) == IF c.socks THEN c.optTLS ELSE c.pipeTLS

\* One successful run of the cert-monitor task.
DotMonitor ==
    /\ dotC.runs < MaxRenewals
    /\ dotC' = DoTCertMonitorRun(dotC)
    /\ dotLast' = [n |-> 0, tls |-> 0]
    /\ UNCHANGED notDotVars

\* One query that opens an upstream connection.
DotQuery ==
    /\ dotLast.n < MaxQueries
    /\ dotLast' = [n |-> dotLast.n + 1, tls |-> DoTQueryTLS(dotC)]
    /\ UNCHANGED dotC
    /\ UNCHANGED notDotVars

InitDot ==
    /\ BuilderReturned
    /\ PanelNotBuilt
    /\ NodeIdle
    /\ RotateIdle
    /\ TrieEmpty
    /\ ListenerIdle
    /\ CertIdle
    /\ ProcIdle
    /\ StopIdle
    /\ EcsIdle
    /\ RblIdle
    /\ dotC \in DotClients
    /\ dotLast = [n |-> 0, tls |-> 0]

NextDot ==
    \/ DotMonitor
    \/ DotQuery

SpecDot == InitDot /\ [][NextDot]_vars

\* The client has had a run that renewed the certificate.
DotRenewed == dotC.runs > 0 /\ dotC.mode \in {"dns", "http", "tls"}

\* C33: every query after a cert-monitor run that renewed the certificate
\* goes over a connection that uses the TLS configuration built from the
\* latest renewal.
C33_QueriesUseRenewedConfig ==
    (DotRenewed /\ dotLast.n > 0) => dotLast.tls = dotC.runs

-----------------------------------------------------------------------------
(***************************************************************************)
(* PanelRotate.Resolve: termination and the response chosen                *)
(***************************************************************************)

\* C34: whatever the number of attached panel resolvers, zero included, a
\* call of PanelRotate.Resolve returns once its panel resolvers have
\* returned.
C34_ResolveReturns ==
    (rotMain.pc = "start") ~> (rotMain.pc = "returned")

\* The same for a panel-rotate with at least one panel resolver attached.
C34_ReturnsWithPanels ==
    (rotMain.pc = "start" /\ Len(rotKids) >= 1) ~> (rotMain.pc = "returned")

\* Every panel resolver has returned and Resolve has returned.
RotateOver ==
    /\ rotMain.pc = "returned"
    /\ \A c \in DOMAIN rotKids : rotKids[c] = "sent"

\* C35: when one of several panel resolvers has the client on its IP
\* allowlist and answers without error, the response of the panel-rotate is
\* not the REFUSED of a panel resolver that does not have the client on its
\* allowlist, in whatever order the responses arrive.
C35_AllowedClientNotRefused ==
    (RotateOver /\ Len(rotKids) >= 2
       /\ \E k \in DOMAIN rotArrived : rotArrived[k].kind = "ok")
        => rotMain.ret.kind # "refused"

-----------------------------------------------------------------------------
(***************************************************************************)
(* The resolvers named in a group's options                                *)
(***************************************************************************)

\* What ip-allow-list-resolver of the blocklist-panel "d" may name: a
\* declared id or an id that nothing declares.
IpAllowRefs == {"b", "c", "undeclared"}

\* The configurations with the blocklist-panel "d", its
\* ip-allow-list-resolver set.
WireConfigs ==
    {[c EXCEPT !.Groups = [c.Groups EXCEPT ![PanelId].IpAllowListResolver = r]] :
        c \in {x \in Configs : PanelId \in DOMAIN x.Groups}, r \in IpAllowRefs}

InitWire ==
    /\ cfg \in WireConfigs
    /\ pc = "start"
    /\ err = "none"
    /\ resolvers = EmptyMap
    /\ instCount = [id \in AllIds |-> 0]
    /\ graph = [V |-> {}, E |-> {}]
    /\ leaves = {}
    /\ panelResolvers = <<>>
    /\ globals = [DefaultResolver |-> "system", XRAY_LOCATION_ASSET |-> "unset"]
    /\ PanelNotBuilt
    /\ NodeIdle
    /\ RotateIdle
    /\ TrieEmpty
    /\ ListenerIdle
    /\ CertIdle
    /\ ProcIdle
    /\ StopIdle
    /\ EcsIdle
    /\ RblIdle
    /\ DotIdle

SpecWire == InitWire /\ [][NextBuild]_vars

\* C36: a blocklist-panel that has been instantiated has a resolver wired
\* in for every option that names one (allowlist-resolver,
\* ip-allow-list-resolver): a non-empty reference is never wired as nil.
C36_NamedOptionResolverIsWired ==
    \A id \in DOMAIN resolvers \cap DOMAIN cfg.Groups :
        cfg.Groups[id].Type = "blocklist-panel" =>
            /\ cfg.Groups[id].AllowListResolver # ""
                   => resolvers[id].AllowListResolver # NilResolver
            /\ cfg.Groups[id].IpAllowListResolver # ""
                   => resolvers[id].IpAllowListResolver # NilResolver

\* The same for the options the builder turns into edges of the graph.
C36_EdgeOptionsAreWired ==
    \A id \in DOMAIN resolvers \cap DOMAIN cfg.Groups :
        (cfg.Groups[id].Type = "blocklist-panel" /\ cfg.Groups[id].AllowListResolver # "")
            => resolvers[id].AllowListResolver # NilResolver

-----------------------------------------------------------------------------
(***************************************************************************)
(* instantiateGroup, one call, for every group type                        *)
(***************************************************************************)

\* The types whose constructor takes gr... without a check of its length.
VariadicTypes == {"round-robin", "fail-rotate", "fail-back", "fastest", "random"}

\* The types whose case starts with `if len(gr) != 1 { return error }`.
OneChildTypes ==
    {"panel-rotate", "blocklist", "blocklist-v2", "blocklist-panel", "replace",
     "ttl-modifier", "truncate-retry", "request-dedup", "fastest-tcp", "ecs-modifier",
     "edns0-modifier", "syslog", "response-blocklist-ip", "response-blocklist-name",
     "client-allowlist", "client-blocklist", "response-minimize", "response-collapse",
     "rate-limiter"}

\* The type that hands gr[0] to its constructor without a check.
UncheckedOneTypes == {"cache"}

\* The types that take no child resolver.
NoChildTypes == {"static-responder", "drop"}

AllGroupTypes == VariadicTypes \cup OneChildTypes \cup UncheckedOneTypes \cup NoChildTypes

\* The resolvers lists tried: empty, one or two built nodes, an id that is
\* not in the map.
TrialLists == {<<>>, <<"a">>, <<"a", "a">>, <<"missing">>}

TrialGroups == {GroupDecl(t, rs, "", "") : t \in AllGroupTypes, rs \in TrialLists}

\* instantiateGroup, lines 65-622, for a group whose other options are
\* valid: the lookup loop, the check of len(gr) where the case has one, and
\* the index gr[0], which panics on an empty slice.
instantiateGroup(g, res) ==
    IF ~GroupChildrenFound(g, res) THEN "error"
    ELSE IF g.Type \in OneChildTypes /\ Len(g.Resolvers) # 1 THEN "error"
    ELSE IF g.Type \in UncheckedOneTypes /\ Len(g.Resolvers) = 0 THEN "panic"
    ELSE "built"

\* The call of instantiateGroup for the group "b".
InstantiateGroupCall ==
    /\ pc = "group"
    /\ LET out == instantiateGroup(cfg.Groups["b"], resolvers)
       IN /\ pc' = CASE out = "built" -> "done"
                     [] out = "error" -> "failed"
                     [] OTHER -> "crashed"
          /\ err' = IF out = "error" THEN "constructor" ELSE err
          /\ resolvers' = IF out = "built"
                          THEN ("b" :> GroupInstance(cfg.Groups["b"], resolvers)) @@ resolvers
                          ELSE resolvers
          /\ instCount' = IF out = "built" THEN [instCount EXCEPT !["b"] = 1] ELSE instCount
    /\ UNCHANGED <<cfg, graph, leaves, panelResolvers, globals>>
    /\ UNCHANGED notBuildVars

InitGroup ==
    /\ \E g \in TrialGroups :
          cfg = [BootstrapResolver |-> FALSE, Resolvers |-> {"a"}, Groups |-> ("b" :> g),
                 Routers |-> [x \in {} |-> 0], ListenerResolver |-> "b"]
    /\ pc = "group"
    /\ err = "none"
    /\ resolvers = ("a" :> ResolverInstance)
    /\ instCount = [id \in AllIds |-> IF id = "a" THEN 1 ELSE 0]
    /\ graph = [V |-> {"b"}, E |-> {}]
    /\ leaves = {"b"}
    /\ panelResolvers = <<>>
    /\ globals = [DefaultResolver |-> "system", XRAY_LOCATION_ASSET |-> "pwd"]
    /\ PanelNotBuilt
    /\ NodeIdle
    /\ RotateIdle
    /\ TrieEmpty
    /\ ListenerIdle
    /\ CertIdle
    /\ ProcIdle
    /\ StopIdle
    /\ EcsIdle
    /\ RblIdle
    /\ DotIdle

NextGroup == InstantiateGroupCall

SpecGroup == InitGroup /\ [][NextGroup]_vars

\* The group's resolvers list is empty or has the wrong size for its type:
\* the types with children take one resolver, the variadic ones at least one.
WrongChildCount(g) ==
    /\ g.Type \notin NoChildTypes
    /\ \/ Len(g.Resolvers) = 0
       \/ g.Type \notin VariadicTypes /\ Len(g.Resolvers) # 1

\* C37: for a group of any child-taking type whose resolvers list is empty
\* or has the wrong size, instantiateGroup returns an error: it neither
\* crashes nor builds the group.
C37_WrongChildCountIsAnError ==
    (pc # "group" /\ WrongChildCount(cfg.Groups["b"])) => pc = "failed"

\* The same for the types whose case checks len(gr).
C37_CheckedTypesReturnError ==
    (pc # "group" /\ WrongChildCount(cfg.Groups["b"])
       /\ cfg.Groups["b"].Type \in OneChildTypes) => pc = "failed"

-----------------------------------------------------------------------------
(***************************************************************************)
(* CidrDBX.Add and CidrDBX.Match, as the IP allowlist of a Panellist       *)
(***************************************************************************)

\* One call of IpAllowlistDB.Add with the addresses of some users. tick.added
\* collects the users whose addresses were added so far.
CidrAddCall ==
    /\ \E users \in SUBSET Users \ {{}} :
        /\ panelDB' = [panelDB EXCEPT !.IpAllowlistDB = CidrAdd(@, Passwds(users))]
        /\ tick' = [tick EXCEPT !.added = @ \cup users]
    /\ last' = NoQuery
    /\ UNCHANGED <<loaderOpt, panelOpt>>
    /\ UNCHANGED notPanelVars

\* The DB is built by NewCidrDBX from a user list, the empty one included.
InitCidr ==
    /\ BuilderReturned
    /\ NodeIdle
    /\ RotateIdle
    /\ TrieEmpty
    /\ ListenerIdle
    /\ CertIdle
    /\ ProcIdle
    /\ StopIdle
    /\ EcsIdle
    /\ RblIdle
    /\ DotIdle
    /\ loaderOpt \in {[NodeInfo |-> n, UserList |-> u] : n \in RefreshNodeInfos, u \in SUBSET Users}
    /\ panelDB = PanelLoaderGet(loaderOpt, NoHosts)
    /\ panelOpt = NoAltResolvers
    /\ tick = NoTick
    /\ last = NoQuery

NextCidr ==
    \/ CidrAddCall
    \/ ResolveQuery(RefreshQueries)

SpecCidr == InitCidr /\ [][NextCidr]_vars

\* C38: after Add(rules), Match is true for the address of every rule
\* added: a query from such an address is not refused for missing the IP
\* allowlist, also when the DB was built from an empty user list.
C38_AddedRulesMatch ==
    /\ \A u \in tick.added : CidrMatch(panelDB.IpAllowlistDB, u.Passwd)
    /\ (last.asked /\ last.q.SourceIP \in Passwds(tick.added)) => last.res.kind # "refused"

\* The same for a DB that was built from a user list with at least one user.
C38_AddedRulesMatchNonEmptyStart ==
    loaderOpt.UserList # {} =>
        /\ \A u \in tick.added : CidrMatch(panelDB.IpAllowlistDB, u.Passwd)
        /\ (last.asked /\ last.q.SourceIP \in Passwds(tick.added))
               => last.res.kind # "refused"

-----------------------------------------------------------------------------
(***************************************************************************)
(* The Start() calls on one listener.  Start is ListenAndServe on the      *)
(* listener's server: a call is active from the moment it is made until it *)
(* returns, which is at once with an error when the server is already      *)
(* serving, and at the next Stop otherwise.  Two goroutines call it: the   *)
(* loop of start(), again one second after each return, and a CertMonitor  *)
(* run, after its Stop.  certL.starter is the position of the loop         *)
(* (sleep, calling, serving), certRun.pc that of the run.                  *)
(***************************************************************************)

\* The loop of start() calls l.Start().
LoopStartCall ==
    /\ Alive
    /\ certL.starter = "sleep"
    /\ certL' = [certL EXCEPT !.starter = "calling"]
    /\ UNCHANGED <<certRun, certTask>>
    /\ UNCHANGED notCertVars

\* ListenAndServe of that call: on a server that is serving it returns an
\* error, the loop logs it and sleeps; otherwise the call serves.
LoopStartListen ==
    /\ Alive
    /\ certL.starter = "calling"
    /\ certL' = IF certL.serving
                THEN [certL EXCEPT !.starter = "sleep"]
                ELSE [certL EXCEPT !.serving = TRUE, !.starter = "serving"]
    /\ UNCHANGED <<certRun, certTask>>
    /\ UNCHANGED notCertVars

\* s.Stop() of a CertMonitor run: the server stops serving and the Start
\* call of the loop that was serving returns; a call of the loop that has
\* not listened yet goes on.
MonitorStop ==
    /\ Alive
    /\ certRun.pc = "stop"
    /\ IF CertStopPanics(certL.kind)
       THEN /\ certTask' = [certTask EXCEPT !.crashed = TRUE]
            /\ UNCHANGED <<certL, certRun>>
       ELSE /\ certL' = [certL EXCEPT !.serving = FALSE,
                                      !.starter = IF @ = "serving" THEN "sleep" ELSE @]
            /\ certRun' = [certRun EXCEPT !.pc = "start"]
            /\ UNCHANGED certTask
    /\ UNCHANGED notCertVars

\* The run calls s.Start().
MonitorStartCall ==
    /\ Alive
    /\ certRun.pc = "start"
    /\ certRun' = [certRun EXCEPT !.pc = "starting"]
    /\ UNCHANGED <<certL, certTask>>
    /\ UNCHANGED notCertVars

\* ListenAndServe of that call: on a server that the loop has started again
\* it returns an error, which is printed, and CertMonitor returns nil;
\* otherwise the call serves and CertMonitor does not return.
MonitorStartListen ==
    /\ Alive
    /\ certRun.pc = "starting"
    /\ IF certL.serving
       THEN /\ certRun' = [certRun EXCEPT !.pc = "idle"]
            /\ UNCHANGED certL
       ELSE /\ certRun' = [certRun EXCEPT !.pc = "serving"]
            /\ certL' = [certL EXCEPT !.serving = TRUE]
    /\ UNCHANGED certTask
    /\ UNCHANGED notCertVars

NextStart ==
    \/ LoopStartCall
    \/ LoopStartListen
    \/ CertTick
    \/ CertNew
    \/ CertRenew
    \/ CertConfig
    \/ CertSwap
    \/ MonitorStop
    \/ MonitorStartCall
    \/ MonitorStartListen

SpecStart == InitCert /\ [][NextStart]_vars

\* The Start() calls on the listener that have not returned.
ActiveStarts ==
    (IF certL.starter \in {"calling", "serving"} THEN 1 ELSE 0)
      + (IF certRun.pc \in {"starting", "serving"} THEN 1 ELSE 0)

\* C40: at any time at most one Start() call is active on a listener; the
\* loop of start() and a CertMonitor run never leave two concurrent Start()
\* calls on it.  Violated: the Start of a CertMonitor run serves and does
\* not return, and the loop calls Start() again a second after the Stop.
C40_AtMostOneActiveStart ==
    ActiveStarts <= 1

\* On a listener that no CertMonitor run has stopped and started, the loop
\* is the only caller of Start().
C40_OneStartBeforeFirstRestart ==
    certRun.pc \in {"idle", "new", "renew", "config", "swap", "stop"} => ActiveStarts <= 1

\* The Start() of a CertMonitor run is serving and the loop of start() has
\* called Start() again.
LoopCallsWhileMonitorServes ==
    certRun.pc = "serving" /\ certL.starter = "calling"

====
